---- MODULE Spec2Model ----
(***************************************************************************)
(* Canter: the transaction resolution and indexing core.                   *)
(*                                                                         *)
(* One Connection (internal/store/connection.go) over one badgerStore      *)
(* (internal/store/badger).  The state is the content of the key-value     *)
(* store (the EAVT and AVET indexes, the two ident tables, the ID          *)
(* sequence) and the connection's two caches.  Every operation is          *)
(* translated from its Go source; the Go map iteration orders and the      *)
(* wall clock are inputs of the actions.                                   *)
(***************************************************************************)
EXTENDS Integers, Sequences, FiniteSets, TLC

(***************************************************************************)
(* Bounds of the model.                                                    *)
(***************************************************************************)
\* Number of Connection.Assert calls explored in one behaviour.
MaxAsserts == 3
\* Number of Connection.InitializeDB calls explored in one behaviour.
MaxInits == 1
\* Number of Connection.Assert calls a test makes after newTestConn.
MaxTestAsserts == 2

(***************************************************************************)
(* Program constants.                                                      *)
(***************************************************************************)
unresolvedEntityID == 0

AssertModeInvalid == 0
AssertModeAddition == 1
AssertModeRetraction == 2
AssertModeRedaction == 3

IDID == -1
IDIdent == -2
IDType == -3
IDCompositeComponents == -4
IDCardinality == -5
IDUnique == -6
IDIndexed == -7
IDDoc == -8
IDTxCommitTime == -9
IDCardinalityOne == -10
IDCardinalityMany == -11
IDTypeString == -511
IDTypeBoolean == -512
IDTypeInt64 == -513
IDTypeInt32 == -514
IDTypeInt16 == -515
IDTypeInt8 == -516
IDTypeFloat64 == -517
IDTypeFloat32 == -518
IDTypeDecimal == -519
IDTypeTimestamp == -520
IDTypeDate == -521
IDTypeRef == -522
IDTypeBinary == -523
IDTypeUUID == -524
IDTypeULID == -525
IDTypeComposite == -526

\* The system idents newIdentCache seeds the cache with.
SystemIdents ==
    << [id |-> IDID, name |-> "db/id"],
       [id |-> IDIdent, name |-> "db/ident"],
       [id |-> IDType, name |-> "db/type"],
       [id |-> IDCompositeComponents, name |-> "db/compositeComponents"],
       [id |-> IDCardinality, name |-> "db/cardinality"],
       [id |-> IDUnique, name |-> "db/unique"],
       [id |-> IDIndexed, name |-> "db/indexed"],
       [id |-> IDDoc, name |-> "db/doc"],
       [id |-> IDTxCommitTime, name |-> "db.tx/commitTime"],
       [id |-> IDCardinalityOne, name |-> "db.cardinality/one"],
       [id |-> IDCardinalityMany, name |-> "db.cardinality/many"],
       [id |-> IDTypeString, name |-> "db.type/string"],
       [id |-> IDTypeBoolean, name |-> "db.type/boolean"],
       [id |-> IDTypeInt64, name |-> "db.type/int64"],
       [id |-> IDTypeInt32, name |-> "db.type/int32"],
       [id |-> IDTypeInt16, name |-> "db.type/int16"],
       [id |-> IDTypeInt8, name |-> "db.type/int8"],
       [id |-> IDTypeFloat64, name |-> "db.type/float64"],
       [id |-> IDTypeFloat32, name |-> "db.type/float32"],
       [id |-> IDTypeDecimal, name |-> "db.type/decimal"],
       [id |-> IDTypeTimestamp, name |-> "db.type/timestamp"],
       [id |-> IDTypeDate, name |-> "db.type/date"],
       [id |-> IDTypeRef, name |-> "db.type/ref"],
       [id |-> IDTypeBinary, name |-> "db.type/binary"],
       [id |-> IDTypeUUID, name |-> "db.type/uuid"],
       [id |-> IDTypeULID, name |-> "db.type/ulid"],
       [id |-> IDTypeComposite, name |-> "db.type/composite"] >>

(***************************************************************************)
(* Values.  A Go value of dynamic type k: n carries a number (or 0/1 for a *)
(* bool), s carries a string.  Kinds: "id" store.ID, "str" string, "bool", *)
(* "i64" int64, "u64" uint64, "int", "uint", "i32", "u32", "i16", "u16",   *)
(* "i8", "u8" the other integer kinds, "time" time.Time (unix seconds), "tmp" *)
(* tempID (s is the symbol), "ident" store.Ident, "nil" the nil interface. *)
(***************************************************************************)
Val(k, n, s) == [k |-> k, n |-> n, s |-> s]
VID(n) == Val("id", n, "")
VStr(s) == Val("str", 0, s)
VBool(b) == Val("bool", IF b THEN 1 ELSE 0, "")
VI64(n) == Val("i64", n, "")
VU64(n) == Val("u64", n, "")
VTime(n) == Val("time", n, "")
VTmp(sym) == Val("tmp", 0, sym)
VIdent(id, name) == Val("ident", id, name)
VNil == Val("nil", 0, "")

\* The error kinds the operations return; "" is the nil error.
NoErr == ""
ErrConflict == "ErrConflict"
ErrNoSuchEntity == "ErrNoSuchEntity"
ErrNoSuchIdent == "ErrNoSuchIdent"
ErrPropertyNotFound == "ErrPropertyNotFound"

(***************************************************************************)
(* gob value encoding (NOTE [VALUE-ENCODING] in the badger store).  The    *)
(* bytes of gob.Encode(v) are determined by the wire type of v and its     *)
(* payload: store.ID and int64 share the wire type int.                    *)
(***************************************************************************)
GobWire(v) ==
    CASE v.k \in {"id", "i64", "int", "i32", "i16", "i8"} -> "int"
      [] v.k \in {"u64", "uint", "u32", "u16", "u8"} -> "uint"
      [] v.k = "bool" -> "bool"
      [] v.k = "str" -> "string"
      [] v.k = "time" -> "time"
      [] OTHER -> "none"

\* gob cannot encode a nil interface or a struct without exported fields
\* (tempID); Ident values never reach the indexes.
GobEncodable(v) == GobWire(v) # "none"

\* A value beyond the 32-bit range (a record with a field hi, see VWide)
\* keeps its side in the encoding.
GobEncode(v) ==
    IF "hi" \in DOMAIN v THEN [w |-> GobWire(v), n |-> 0, s |-> "", hi |-> v.hi]
    ELSE [w |-> GobWire(v), n |-> v.n, s |-> v.s]

\* The strings of the model in the byte order of their gob messages: the
\* message starts with its length, so shorter strings sort first and strings
\* of one length sort bytewise.
GobStrOrder ==
    << "123", "456", "Ann", "Bob", "Lee", "Rex", "a@x", "b@x", "c@x",
       "Entity ID",
       "Schema entity type",
       "Timestamp of the transaction commit.",
       "Documentation for an attribute or entity.",
       "Cardinality of an attribute. Enumerated value: db.cardinality/one or db.cardinality/many",
       "Global ident. Should be applied to schema entities and global values like enum variants.",
       "Whether an attribute is indexed. If true, the attribute will be indexed in the AVET index.",
       "Whether an attribute is unique. If true, only one entity may have a given value for the attribute." >>

StrRank(s) ==
    IF \E i \in 1..Len(GobStrOrder) : GobStrOrder[i] = s
    THEN CHOOSE i \in 1..Len(GobStrOrder) : GobStrOrder[i] = s
    ELSE 0

\* gob sends an int i inside a uint u: bit 0 says whether the upper bits are
\* complemented.  Longer encodings belong to larger u, so u orders the bytes.
GobIntAsUint(n) == IF n >= 0 THEN 2 * n ELSE 2 * (-n) - 1

\* gob type ids of the basic wire types (bool 1, int 2, uint 3, string 6); a
\* GobEncoder value (time.Time) is preceded by a type definition, a longer
\* message than any basic one of the model.
GobTypeRank(w) ==
    CASE w = "bool" -> 1
      [] w = "int" -> 2
      [] w = "uint" -> 3
      [] w = "string" -> 6
      [] OTHER -> 64

GobPayloadRank(k) ==
    CASE k.w = "int" -> GobIntAsUint(k.n)
      [] k.w = "string" -> StrRank(k.s)
      [] OTHER -> k.n

\* Byte order of two encoded values under one attribute prefix.
GobLess(k1, k2) ==
    IF k1.w # k2.w
    THEN GobTypeRank(k1.w) < GobTypeRank(k2.w)
    ELSE GobPayloadRank(k1) < GobPayloadRank(k2)

\* Byte order of two IDs written big-endian as uint64: the non-negative IDs
\* first, then the negative ones.
U64Less(a, b) ==
    IF (a >= 0) = (b >= 0) THEN a < b ELSE a >= 0

(***************************************************************************)
(* The badger store.  eavt: one entry per key (E, A), holding              *)
(* Mode, Tx and the gob bytes of the value.  avet: one entry per key       *)
(* (A, gob(V)), holding Mode, Tx and E.  txn.Set replaces the entry of an  *)
(* existing key.                                                           *)
(***************************************************************************)
\* The entry writeEAVT sets for one assertion: key (E, A).
writeEAVT(ra) ==
    [e |-> ra.e, a |-> ra.a, mode |-> ra.mode, tx |-> ra.tx, enc |-> GobEncode(ra.v)]

\* The entry writeAVET sets for one assertion: key (A, gob(V)).
writeAVET(ra) ==
    [a |-> ra.a, enc |-> GobEncode(ra.v), mode |-> ra.mode, tx |-> ra.tx, e |-> ra.e]

SameEAVTKey(x, y) == x.e = y.e /\ x.a = y.a
SameAVETKey(x, y) == x.a = y.a /\ x.enc = y.enc

\* badgerStore.Write: one db.Update transaction that sets, assertion by
\* assertion, the EAVT entry and the AVET entry.  Of the entries set on one
\* key the last one stays; an encoding error aborts the transaction and
\* nothing is applied.
Write(c, assertions) ==
    LET N == Len(assertions)
        eavtNew == { writeEAVT(assertions[i]) : i \in 1..N }
        eavtLast == { writeEAVT(assertions[i]) : i \in
                        { k \in 1..N : \A j \in (k + 1)..N :
                            ~SameEAVTKey(writeEAVT(assertions[j]), writeEAVT(assertions[k])) } }
        avetNew == { writeAVET(assertions[i]) : i \in 1..N }
        avetLast == { writeAVET(assertions[i]) : i \in
                        { k \in 1..N : \A j \in (k + 1)..N :
                            ~SameAVETKey(writeAVET(assertions[j]), writeAVET(assertions[k])) } }
    IN IF \E i \in 1..N : ~GobEncodable(assertions[i].v)
       THEN [err |-> "encoding value", conn |-> c]
       ELSE [err |-> NoErr,
             conn |-> [c EXCEPT
                !.eavt = { x \in @ : \A y \in eavtNew : ~SameEAVTKey(x, y) } \cup eavtLast,
                !.avet = { x \in @ : \A y \in avetNew : ~SameAVETKey(x, y) } \cup avetLast]]

\* gob decoding of stored bytes into the Go type ScanEAVT picks for the
\* attribute type.
GobDecode(attrType, enc) ==
    CASE attrType = IDTypeRef ->
            IF enc.w = "int" THEN [err |-> NoErr, v |-> VID(enc.n)]
            ELSE [err |-> "decoding ref value", v |-> VNil]
      [] attrType = IDTypeString ->
            IF enc.w = "string" THEN [err |-> NoErr, v |-> VStr(enc.s)]
            ELSE [err |-> "decoding string value", v |-> VNil]
      [] attrType = IDTypeInt64 ->
            IF enc.w = "int"
            THEN [err |-> NoErr,
                  v |-> IF "hi" \in DOMAIN enc
                        THEN [k |-> "i64", n |-> 0, s |-> "", hi |-> enc.hi]
                        ELSE VI64(enc.n)]
            ELSE [err |-> "decoding int64 value", v |-> VNil]
      [] attrType = IDTypeFloat64 ->
            [err |-> "decoding float64 value", v |-> VNil]
      [] attrType = IDTypeBoolean ->
            IF enc.w = "bool" THEN [err |-> NoErr, v |-> Val("bool", enc.n, "")]
            ELSE [err |-> "decoding bool value", v |-> VNil]
      [] attrType = IDTypeBinary ->
            [err |-> NoErr, v |-> Val("bytes", enc.n, enc.s)]
      [] OTHER -> [err |-> "unsupported value type", v |-> VNil]

\* typeFor: the db/type entry of the attribute, whatever its mode.
typeFor(eavtTbl, attribute) ==
    LET hit == { x \in eavtTbl : x.e = attribute /\ x.a = IDType }
    IN IF hit = {} THEN [err |-> "fetching type for attribute", id |-> 0]
       ELSE LET x == CHOOSE y \in hit : TRUE
            IN IF x.enc.w = "int" THEN [err |-> NoErr, id |-> x.enc.n]
               ELSE [err |-> "fetching type for attribute", id |-> 0]

NilAttr == [nil |-> TRUE, id |-> 0]
AttrPtr(a) == [nil |-> FALSE, id |-> a]

\* One iteration of the ScanEAVT loop: the fact built from one index entry.
\* An entry whose mode is not Addition leaves the callback early, and the
\* fact is appended with its zero Value and Tx.
ScanEAVTItem(eavtTbl, x) ==
    IF x.mode # AssertModeAddition
    THEN [err |-> NoErr, fct |-> [e |-> x.e, a |-> x.a, v |-> VNil, tx |-> 0]]
    ELSE LET ty == typeFor(eavtTbl, x.a)
         IN IF ty.err # NoErr
            THEN [err |-> ty.err, fct |-> [e |-> x.e, a |-> x.a, v |-> VNil, tx |-> x.tx]]
            ELSE LET d == GobDecode(ty.id, x.enc)
                 IN [err |-> d.err, fct |-> [e |-> x.e, a |-> x.a, v |-> d.v, tx |-> x.tx]]

EAVTKeyLess(x, y) == U64Less(x.a, y.a)

\* The entries of one entity in key order, as the badger iterator yields them.
RECURSIVE SortEAVT(_)
SortEAVT(S) ==
    IF S = {} THEN << >>
    ELSE LET m == CHOOSE x \in S : \A y \in S \ {x} : EAVTKeyLess(x, y)
         IN << m >> \o SortEAVT(S \ {m})

ScanEAVT(eavtTbl, entityID, attribute) ==
    LET hit == { x \in eavtTbl :
                    x.e = entityID /\ (attribute.nil \/ x.a = attribute.id) }
        Items(entries) == [i \in 1..Len(entries) |-> ScanEAVTItem(eavtTbl, entries[i])]
        \* the first failing item ends the scan with its error
        Collect(items) ==
            IF \E i \in 1..Len(items) : items[i].err # NoErr
            THEN [err |-> items[CHOOSE i \in 1..Len(items) :
                                   items[i].err # NoErr
                                   /\ \A j \in 1..(i - 1) : items[j].err = NoErr].err,
                  facts |-> << >>]
            ELSE [err |-> NoErr, facts |-> [i \in 1..Len(items) |-> items[i].fct]]
    IN Collect(Items(SortEAVT(hit)))

AVETKeyLess(x, y) == GobLess(x.enc, y.enc)

\* The entries of one attribute in key order, as the badger iterator yields them.
RECURSIVE SortAVET(_)
SortAVET(S) ==
    IF S = {} THEN << >>
    ELSE LET m == CHOOSE x \in S : \A y \in S \ {x} : AVETKeyLess(x, y)
         IN << m >> \o SortAVET(S \ {m})

\* The seek prefix of ScanAVET: the table byte and the attribute.  The gob
\* bytes of val are written to prefixBuf and never appended to the prefix.
ScanAVETPrefixMatches(x, attribute, val) == x.a = attribute

\* One iteration of the ScanAVET loop.
ScanAVETItem(x, attribute, val) ==
    IF x.mode # AssertModeAddition
    THEN [e |-> 0, a |-> attribute, v |-> val, tx |-> 0]
    ELSE [e |-> x.e, a |-> attribute, v |-> val, tx |-> x.tx]

ScanAVET(avetTbl, attribute, val) ==
    IF val.k = "nil" THEN [err |-> "nil value not supported", facts |-> << >>]
    ELSE IF ~GobEncodable(val) THEN [err |-> "encoding value", facts |-> << >>]
    ELSE LET hit == { x \in avetTbl : ScanAVETPrefixMatches(x, attribute, val) }
             entries == SortAVET(hit)
         IN [err |-> NoErr,
             facts |-> [i \in 1..Len(entries) |-> ScanAVETItem(entries[i], attribute, val)]]

(***************************************************************************)
(* The ident registry: the identCache of a Connection and the badger       *)
(* IdentManager.                                                           *)
(***************************************************************************)
EmptyFn == [x \in {} |-> 0]

\* identCache.store: appends the idents in order and stops at the first one
\* whose ID is already indexed.
RECURSIVE identCacheStore(_, _, _)
identCacheStore(cache, idents, i) ==
    IF i > Len(idents) THEN cache
    ELSE IF idents[i].id \in DOMAIN cache.identIdxID THEN cache
    ELSE LET idx == Len(cache.idents) + 1
         IN identCacheStore(
                [idents |-> Append(cache.idents, idents[i]),
                 identIdxID |-> (idents[i].id :> idx) @@ cache.identIdxID,
                 identIdxName |-> (idents[i].name :> idx) @@ cache.identIdxName],
                idents, i + 1)

newIdentCache ==
    identCacheStore([idents |-> << >>, identIdxID |-> EmptyFn, identIdxName |-> EmptyFn],
                    SystemIdents, 1)

NullIdent == [id |-> 0, name |-> ""]

lookupByID(cache, id) ==
    IF id \in DOMAIN cache.identIdxID
    THEN [ok |-> TRUE, ident |-> cache.idents[cache.identIdxID[id]]]
    ELSE [ok |-> FALSE, ident |-> NullIdent]

lookupByName(cache, name) ==
    IF name \in DOMAIN cache.identIdxName
    THEN [ok |-> TRUE, ident |-> cache.idents[cache.identIdxName[name]]]
    ELSE [ok |-> FALSE, ident |-> NullIdent]

\* strings.HasPrefix(v, "db/") over the names of the model.
DbSlashNames ==
    { "db/id", "db/ident", "db/type", "db/compositeComponents", "db/cardinality",
      "db/unique", "db/indexed", "db/doc", "db/custom" }
\* A prefix test that no name passes.
HasNoPrefix(name) == FALSE
HasDbSlashPrefix(name) == name \in DbSlashNames

\* LookupIdentIDs with the IDs in the reverse of the order of the names.
LookupIdentIDsReversed(c, names) ==
    IF \E i \in 1..Len(names) : \A x \in c.identIDByName : x.name # names[i]
    THEN [err |-> ErrNoSuchIdent, ids |-> << >>]
    ELSE [err |-> NoErr,
          ids |-> [i \in 1..Len(names) |->
                     (CHOOSE x \in c.identIDByName : x.name = names[Len(names) + 1 - i]).id]]

\* badgerStore.LookupIdentIDs: the IdentIDByName entry of each name; the
\* first name without one fails the whole call.
LookupIdentIDs(c, names) ==
    IF \E i \in 1..Len(names) : \A x \in c.identIDByName : x.name # names[i]
    THEN [err |-> ErrNoSuchIdent, ids |-> << >>]
    ELSE [err |-> NoErr,
          ids |-> [i \in 1..Len(names) |->
                     (CHOOSE x \in c.identIDByName : x.name = names[i]).id]]

\* User ident names of the model in byte order.
IdentNameOrder ==
    << "db.custom/attr", "db/custom", "person/born", "person/email", "person/firstName", "person/lastName",
       "person/nick", "person/pets", "person/ssn", "pet/name" >>
IdentNameRank(name) ==
    IF \E i \in 1..Len(IdentNameOrder) : IdentNameOrder[i] = name
    THEN CHOOSE i \in 1..Len(IdentNameOrder) : IdentNameOrder[i] = name
    ELSE 0

\* LookupIdentNames that answers an ID without a key with the empty name.
LookupIdentNamesLenient(c, ids) ==
    [err |-> NoErr,
     names |-> [i \in 1..Len(ids) |->
                  LET hit == { x \in c.idents : x.id = ids[i] }
                  IN IF hit = {} THEN ""
                     ELSE (CHOOSE x \in hit : \A y \in hit :
                             IdentNameRank(x.name) <= IdentNameRank(y.name)).name]]

\* badgerStore.LookupIdentNames: seeks the Idents table at the ID and takes
\* the name of the first key that has the ID as its prefix.
LookupIdentNames(c, ids) ==
    IF \E i \in 1..Len(ids) : \A x \in c.idents : x.id # ids[i]
    THEN [err |-> ErrNoSuchIdent, names |-> << >>]
    ELSE [err |-> NoErr,
          names |-> [i \in 1..Len(ids) |->
                       LET hit == { x \in c.idents : x.id = ids[i] }
                       IN (CHOOSE x \in hit : \A y \in hit :
                              IdentNameRank(x.name) <= IdentNameRank(y.name)).name]]

\* A StoreIdent that sets no key.
StoreNothing(c, ident) == c

\* badgerStore.StoreIdent: sets the Idents key (id, name) and the
\* IdentIDByName entry of the name.
StoreIdent(c, ident) ==
    [c EXCEPT !.idents = @ \cup { ident },
              !.identIDByName = { x \in @ : x.name # ident.name } \cup { ident }]

\* The first byte of the big-endian key bytes of an ID (IDs of the model are
\* far below 2^56 in magnitude).
KeyByte1(id) == IF id < 0 THEN 255 ELSE 0

\* The bytes strconv.ParseInt(_, 10, 64) accepts first: a sign or a digit.
DecimalFirstBytes == {43, 45} \cup (48..57)

\* badgerStore.LoadIdents: every key of the Idents table has its 8 ID bytes
\* parsed as decimal text, and a key that does not parse panics.  A table
\* that is read through without a panic is empty: no ID of the model has
\* decimal text for key bytes.
LoadIdents(c) ==
    IF \E x \in c.idents : KeyByte1(x.id) \notin DecimalFirstBytes
    THEN [panic |-> TRUE, idents |-> << >>]
    ELSE [panic |-> FALSE, idents |-> << >>]

\* badgerStore.NextID: the next value of the badger sequence, which starts at 0.
NextID(c) == [id |-> c.seq, conn |-> [c EXCEPT !.seq = @ + 1]]

\* The positions of the inputs that need the backend, in input order.
RECURSIVE SelectIdx(_, _, _)
SelectIdx(flags, i, acc) ==
    IF i > Len(flags) THEN acc
    ELSE SelectIdx(flags, i + 1, IF flags[i] THEN Append(acc, i) ELSE acc)

\* Connection.ResolveIdents.
ResolveIdents(c, idents) ==
    LET N == Len(idents)
        \* the first loop: what the cache answers for input i
        cachedAt(i) ==
            CASE idents[i].k = "ident" ->
                    [ok |-> TRUE, ident |-> [id |-> idents[i].n, name |-> idents[i].s]]
              [] idents[i].k = "id" -> lookupByID(c.cache, idents[i].n)
              [] idents[i].k = "str" -> lookupByName(c.cache, idents[i].s)
              [] OTHER -> [ok |-> FALSE, ident |-> NullIdent]
        posIn(seq, i) == CHOOSE j \in 1..Len(seq) : seq[j] = i
        \* the two backend lookups and the cache stores that follow them
        Backend(cached, indexesNames, indexesIDs, unresolvedNames, unresolvedIDs) ==
            LET Fetched(byName, byID) ==
                    LET newByName == [j \in 1..Len(unresolvedNames) |->
                                        [id |-> byName.ids[j], name |-> unresolvedNames[j]]]
                        newByID == [j \in 1..Len(unresolvedIDs) |->
                                      [id |-> unresolvedIDs[j], name |-> byID.names[j]]]
                        Stored(cache1) ==
                            IF Len(unresolvedIDs) > 0 /\ byID.err # NoErr
                            THEN [err |-> byID.err, out |-> << >>,
                                  conn |-> [c EXCEPT !.cache = cache1]]
                            ELSE [err |-> NoErr,
                                  out |-> [i \in 1..N |->
                                             IF cached[i].ok THEN cached[i].ident
                                             ELSE IF idents[i].k = "str"
                                             THEN newByName[posIn(indexesNames, i)]
                                             ELSE newByID[posIn(indexesIDs, i)]],
                                  conn |-> [c EXCEPT !.cache =
                                              IF Len(unresolvedIDs) > 0
                                              THEN identCacheStore(cache1, newByID, 1)
                                              ELSE cache1]]
                    IN IF Len(unresolvedNames) > 0 /\ byName.err # NoErr
                       THEN [err |-> byName.err, out |-> << >>, conn |-> c]
                       ELSE Stored(IF Len(unresolvedNames) > 0
                                   THEN identCacheStore(c.cache, newByName, 1) ELSE c.cache)
            IN Fetched(LookupIdentIDs(c, unresolvedNames), LookupIdentNames(c, unresolvedIDs))
        Pending(cached, indexesNames, indexesIDs) ==
            Backend(cached, indexesNames, indexesIDs,
                    [j \in 1..Len(indexesNames) |-> idents[indexesNames[j]].s],
                    [j \in 1..Len(indexesIDs) |-> idents[indexesIDs[j]].n])
        Loop(cached) ==
            LET \* the first input, in order, that makes the first loop return
                bad(i) ==
                    \/ idents[i].k \notin {"ident", "id", "str"}
                    \/ idents[i].k = "str" /\ ~cached[i].ok /\ HasDbSlashPrefix(idents[i].s)
            IN IF \E i \in 1..N : bad(i)
               THEN LET i == CHOOSE k \in 1..N : bad(k) /\ \A j \in 1..(k - 1) : ~bad(j)
                    IN [err |-> IF idents[i].k = "str" THEN "reserved namespace"
                                ELSE "cannot resolve to an ident",
                        out |-> << >>, conn |-> c]
               ELSE Pending(cached,
                        SelectIdx([i \in 1..N |-> idents[i].k = "str" /\ ~cached[i].ok], 1, << >>),
                        SelectIdx([i \in 1..N |-> idents[i].k = "id" /\ ~cached[i].ok], 1, << >>))
    IN Loop([i \in 1..N |-> cachedAt(i)])

ResolveIdent(c, ident) ==
    LET First(r) ==
            IF r.err # NoErr THEN [err |-> r.err, ident |-> NullIdent, conn |-> r.conn]
            ELSE [err |-> NoErr, ident |-> r.out[1], conn |-> r.conn]
    IN First(ResolveIdents(c, << ident >>))

\* Ident.Resolve.
IdentResolve(c, ident) ==
    LET IDOf(r) ==
            IF r.err # NoErr THEN [err |-> r.err, id |-> 0, conn |-> r.conn]
            ELSE [err |-> NoErr, id |-> r.ident.id, conn |-> r.conn]
    IN IF ident.id # 0 THEN [err |-> NoErr, id |-> ident.id, conn |-> c]
       ELSE IDOf(ResolveIdent(c, VStr(ident.name)))

(***************************************************************************)
(* Entities.  The state of an Entity maps an attribute ID to its value: a  *)
(* single Value, or the []Value of a cardinality/many attribute.           *)
(***************************************************************************)
One(v) == [many |-> FALSE, vals |-> << v >>]

\* A fold that gives an entity without a db/type the type string.
RECURSIVE SchemaFoldTyped(_, _, _)
SchemaFoldTyped(state, facts, i) ==
    IF i > Len(facts)
    THEN IF IDType \in DOMAIN state THEN state
         ELSE (IDType :> One(VID(IDTypeString))) @@ state
    ELSE SchemaFoldTyped((facts[i].a :> One(facts[i].v)) @@ state, facts, i + 1)

\* The consumer of getSchemaEntity folded over the scanned facts: every fact
\* sets state[fct.Attribute] = fct.Value.
RECURSIVE SchemaFold(_, _, _)
SchemaFold(state, facts, i) ==
    IF i > Len(facts) THEN state
    ELSE SchemaFold((facts[i].a :> One(facts[i].v)) @@ state, facts, i + 1)

\* Connection.getSchemaEntity: the cached snapshot, or an EAVT scan of the
\* attribute entity that is then cached for the life of the connection.
getSchemaEntity(c, attrID) ==
    LET Consume(scan) ==
            IF scan.err # NoErr
            THEN [err |-> scan.err, ent |-> [eid |-> attrID, basisID |-> 0, state |-> EmptyFn],
                  conn |-> c]
            ELSE LET ent == [eid |-> attrID, basisID |-> 0,
                             state |-> SchemaFold(EmptyFn, scan.facts, 1)]
                 IN [err |-> NoErr, ent |-> ent,
                     conn |-> [c EXCEPT !.schemaEntityCache = (attrID :> ent) @@ @]]
    IN IF attrID \in DOMAIN c.schemaEntityCache
       THEN [err |-> NoErr, ent |-> c.schemaEntityCache[attrID], conn |-> c]
       ELSE Consume(ScanEAVT(c.eavt, attrID, NilAttr))

\* Entity.Get for an attribute given by a system ID.  ResolveIdent finds
\* every system ID in the ident cache, which holds them from construction.
EntityGetID(ent, attrID) ==
    IF attrID \in DOMAIN ent.state
    THEN [err |-> NoErr, val |-> ent.state[attrID]]
    ELSE [err |-> ErrPropertyNotFound, val |-> One(VNil)]

\* Entity.Get for any ident-shaped reference.
EntityGet(c, ent, attribute) ==
    LET Got(g, conn) == [err |-> g.err, val |-> g.val, conn |-> conn]
        Found(r) ==
            IF r.err # NoErr
            THEN [err |-> r.err, val |-> One(VNil), conn |-> r.conn]
            ELSE Got(EntityGetID(ent, r.ident.id), r.conn)
    IN Found(ResolveIdent(c, attribute))

\* The consumer of GetEntity folded over the scanned facts.  acc carries the
\* entity, the connection (getSchemaEntity fills its cache) and the error;
\* a missing db/cardinality of the fact's attribute panics.
RECURSIVE EntityFold(_, _, _)
EntityFold(acc, facts, i) ==
    LET fct == facts[i]
        Consume(sch, card) ==
            LET isMany == card.val = One(VID(IDCardinalityMany))
                old == IF fct.a \in DOMAIN acc.ent.state
                       THEN acc.ent.state[fct.a].vals ELSE << >>
                new == IF isMany THEN [many |-> TRUE, vals |-> Append(old, fct.v)]
                       ELSE One(fct.v)
            IN IF sch.err # NoErr
               THEN [acc EXCEPT !.err = sch.err, !.conn = sch.conn]
               ELSE IF card.err # NoErr
               THEN [acc EXCEPT !.err = "panic: error fetching attribute cardinality",
                                !.conn = sch.conn]
               ELSE EntityFold(
                       [err |-> NoErr, conn |-> sch.conn,
                        ent |-> [eid |-> acc.ent.eid,
                                 basisID |-> IF fct.tx > acc.ent.basisID
                                             THEN fct.tx ELSE acc.ent.basisID,
                                 state |-> (fct.a :> new) @@ acc.ent.state]],
                       facts, i + 1)
        WithCardinality(sch) == Consume(sch, EntityGetID(sch.ent, IDCardinality))
    IN IF i > Len(facts) \/ acc.err # NoErr THEN acc
       ELSE WithCardinality(getSchemaEntity(acc.conn, fct.a))

\* Connection.GetEntity once the resolver has produced the entity ID.
GetEntityByID(c, eid) ==
    LET ent0 == [eid |-> eid, basisID |-> 0, state |-> EmptyFn]
        Consume(scan) ==
            IF scan.err # NoErr THEN [err |-> scan.err, ent |-> ent0, conn |-> c]
            ELSE EntityFold([err |-> NoErr, conn |-> c, ent |-> ent0], scan.facts, 1)
    IN Consume(ScanEAVT(c.eavt, eid, NilAttr))

\* Lookup.Resolve.
LookupResolve(c, attributeName, value) ==
    LET Scanned(attr, sch, scan) ==
            IF scan.err # NoErr THEN [err |-> scan.err, id |-> 0, conn |-> sch.conn]
            ELSE IF Len(scan.facts) = 0
            THEN [err |-> ErrNoSuchEntity, id |-> 0, conn |-> sch.conn]
            ELSE [err |-> NoErr, id |-> scan.facts[1].e, conn |-> sch.conn]
        Checked(attr, sch, isUnique) ==
            IF sch.err # NoErr THEN [err |-> sch.err, id |-> 0, conn |-> sch.conn]
            ELSE IF isUnique.err # NoErr
            THEN [err |-> "attribute is not unique", id |-> 0, conn |-> sch.conn]
            ELSE IF isUnique.val.vals[1].k # "bool"
            THEN [err |-> "panic: interface conversion", id |-> 0, conn |-> sch.conn]
            ELSE IF isUnique.val.vals[1].n = 0
            THEN [err |-> "attribute is not unique", id |-> 0, conn |-> sch.conn]
            ELSE Scanned(attr, sch, ScanAVET(sch.conn.avet, attr.ident.id, value))
        Fetched(attr, sch) == Checked(attr, sch, EntityGetID(sch.ent, IDUnique))
        Named(attr) ==
            IF attr.err # NoErr THEN [err |-> attr.err, id |-> 0, conn |-> attr.conn]
            ELSE Fetched(attr, GetEntityByID(attr.conn, attr.ident.id))
    IN Named(ResolveIdent(c, VStr(attributeName)))

\* Connection.GetEntity for a Lookup resolver.
GetEntityByLookup(c, attributeName, value) ==
    LET Got(r) ==
            IF r.err # NoErr
            THEN [err |-> r.err, ent |-> [eid |-> 0, basisID |-> 0, state |-> EmptyFn],
                  conn |-> r.conn]
            ELSE GetEntityByID(r.conn, r.id)
    IN Got(LookupResolve(c, attributeName, value))

(***************************************************************************)
(* Assertables.  An Assertion is [entityID, attribute, value, mode, err];  *)
(* an EntityData is its entries [key, vals] in the order the range loop of *)
(* EntityData.Assertions meets them, and idKey, the first of "db/id" and   *)
(* "db/ident" that the range loop of getIdentifier meets ("" when the map  *)
(* has neither).                                                           *)
(***************************************************************************)
guardMode(mode) ==
    mode \in {AssertModeAddition, AssertModeRetraction, AssertModeRedaction}
guardEntityID(eid) == eid.k \in {"str", "id", "tmp"}
guardAttribute(attr) == attr.k \in {"str", "ident", "id"}

\* A check that sets no error.
checkNothing(a) == a

\* Assertion.checkAndSetErr.
checkAndSetErr(a) ==
    [a EXCEPT !.err = IF guardMode(a.mode) /\ guardEntityID(a.entityID)
                         /\ guardAttribute(a.attribute)
                      THEN NoErr ELSE "invalid assertion"]

\* store.Assert and store.Retract.
NewAssert(eid, attribute, value) ==
    checkAndSetErr([entityID |-> eid, attribute |-> attribute, value |-> value,
                    mode |-> AssertModeAddition, err |-> NoErr])
NewRetract(eid, attribute, value) ==
    checkAndSetErr([entityID |-> eid, attribute |-> attribute, value |-> value,
                    mode |-> AssertModeRetraction, err |-> NoErr])

IsEntityData(x) == "entries" \in DOMAIN x

\* The symbols TempID() makes for the EntityData at each position of a batch
\* (ULIDs in the code: fresh and pairwise distinct).
FreshSymbols == << "ed1", "ed2", "ed3", "ed4", "ed5", "ed6", "ed7", "ed8" >>

\* EntityData.getIdentifier.
getIdentifier(c, ed, pos) ==
    LET entry == CHOOSE x \in { ed.entries[i] : i \in 1..Len(ed.entries) } : x.key = ed.idKey
        Named(r) ==
            IF r.err = ErrNoSuchIdent
            THEN [err |-> NoErr, id |-> VTmp(FreshSymbols[pos]), conn |-> r.conn]
            ELSE IF r.err # NoErr THEN [err |-> r.err, id |-> VNil, conn |-> r.conn]
            ELSE [err |-> NoErr, id |-> VID(r.ident.id), conn |-> r.conn]
    IN IF ed.idKey = "" THEN [err |-> NoErr, id |-> VTmp(FreshSymbols[pos]), conn |-> c]
       ELSE IF ed.idKey = "db/id"
       THEN IF entry.vals[1].k \in {"id", "tmp"}
            THEN [err |-> NoErr, id |-> entry.vals[1], conn |-> c]
            ELSE [err |-> "panic: interface conversion", id |-> VNil, conn |-> c]
       ELSE Named(ResolveIdent(c, entry.vals[1]))

\* The fan-out of EntityData.Assertions: one Assertion per element of every
\* entry but "db/id".
RECURSIVE FanOut(_, _, _)
FanOut(id, entries, i) ==
    IF i > Len(entries) THEN << >>
    ELSE IF entries[i].key = "db/id" THEN FanOut(id, entries, i + 1)
    ELSE [j \in 1..Len(entries[i].vals) |->
            NewAssert(id, VStr(entries[i].key), entries[i].vals[j])]
         \o FanOut(id, entries, i + 1)

\* The first loop of Connection.Assert: every Assertable flattened in order.
RECURSIVE Flatten(_, _, _)
Flatten(acc, assertables, i) ==
    LET Identified(id) ==
            IF id.err # NoErr
            THEN [acc EXCEPT !.err = id.err, !.conn = id.conn]
            ELSE Flatten([err |-> NoErr, conn |-> id.conn,
                          assertions |-> acc.assertions
                                            \o FanOut(id.id, assertables[i].entries, 1)],
                         assertables, i + 1)
    IN IF i > Len(assertables) \/ acc.err # NoErr THEN acc
       ELSE IF ~IsEntityData(assertables[i])
       THEN Flatten([acc EXCEPT !.assertions = Append(@, assertables[i])], assertables, i + 1)
       ELSE Identified(getIdentifier(acc.conn, assertables[i], i))

isIDConflict(tempIDs, sym, newID) ==
    /\ sym \in DOMAIN tempIDs
    /\ tempIDs[sym] # unresolvedEntityID
    /\ tempIDs[sym] # newID

(***************************************************************************)
(* Connection.Assert, first pass.  ctx carries the connection (its caches, *)
(* the ident tables and the ID sequence change while the pass runs), the   *)
(* tempIDs map, the assertions (rewritten in place) and the error that     *)
(* ended the pass.                                                         *)
(***************************************************************************)
IntKinds == {"i64", "u64", "int", "uint", "i32", "u32", "i16", "u16", "i8", "u8"}

MaxInt8 == 127
MinInt8 == -128
MaxInt16 == 32767
MinInt16 == -32768
MaxInt32 == 2147483647
MinInt32 == -2147483647 - 1

\* A 64-bit integer beyond the 32-bit range: hi = 1 stands for a value above
\* MaxInt32 and up to math.MaxInt64, hi = -1 for one below MinInt32, and
\* hi = 2 for the uint64 math.MaxUint64, the one value of the model above
\* math.MaxInt64.  Only its kind and its side are kept, which is all that a
\* comparison with a 32-bit bound reads.
VWide(k, hi) == [k |-> k, n |-> 0, s |-> "", hi |-> hi]
Wide(v) == "hi" \in DOMAIN v
\* math.MaxUint64 as a value of an unsigned 64-bit kind.
AboveInt64 == 2
\* The Go conversion int64(v): the low 64 bits of v in two's complement, so
\* math.MaxUint64 becomes -1 and every other value of the model keeps its
\* number.
Int64Of(value) ==
    IF ~Wide(value) THEN VI64(value.n)
    ELSE IF value.hi = AboveInt64 THEN VI64(-1)
    ELSE VWide("i64", value.hi)
NumGreater(v, bound) == IF Wide(v) THEN v.hi > 0 ELSE v.n > bound
NumLess(v, bound) == IF Wide(v) THEN v.hi < 0 ELSE v.n < bound

\* The switch of one narrow integer type in the first pass: the kind the
\* value is converted to, the bounds, the kinds checked against both bounds,
\* the kinds checked against the upper bound, and the kinds converted
\* without a check.
NarrowInt(valueTypeID) ==
    CASE valueTypeID = IDTypeInt32 ->
            [kind |-> "i32", name |-> "int32", max |-> MaxInt32, min |-> MinInt32,
             both |-> {"i64", "int"}, upper |-> {"u64", "uint", "u32"},
             free |-> {"i16", "u16", "i8", "u8"}]
      [] valueTypeID = IDTypeInt16 ->
            [kind |-> "i16", name |-> "int16", max |-> MaxInt16, min |-> MinInt16,
             both |-> {"i64", "int", "i32"}, upper |-> {"u64", "uint", "u32", "u16"},
             free |-> {"i8", "u8"}]
      [] valueTypeID = IDTypeInt8 ->
            [kind |-> "i8", name |-> "int8", max |-> MaxInt8, min |-> MinInt8,
             both |-> {"i64", "int", "i32", "i16"},
             upper |-> {"u64", "uint", "u32", "u16", "u8"},
             free |-> {}]

\* A range test that lets every value through.
Unchecked(t, value) == FALSE

\* The range test of the switch of a narrow integer type.
OutOfRange(t, value) ==
    \/ value.k \in t.both /\ (NumGreater(value, t.max) \/ NumLess(value, t.min))
    \/ value.k \in t.upper /\ NumGreater(value, t.max)

CoerceNarrow(t, value) ==
    IF value.k = t.kind THEN [err |-> NoErr, value |-> value]
    ELSE IF value.k \notin (t.both \cup t.upper \cup t.free)
    THEN [err |-> "not assignable to an " \o t.name, value |-> value]
    ELSE IF OutOfRange(t, value) THEN [err |-> "out of range", value |-> value]
    ELSE [err |-> NoErr, value |-> Val(t.kind, value.n, "")]

\* Value resolution for a db.type/ref attribute.
CoerceRef(c, tempIDs, attrID, value) ==
    LET v == IF value.k = "str" THEN VIdent(0, value.s) ELSE value
        \* an unknown name given to db/ident: a new ident is allocated and stored
        NewIdent(alloc) ==
            [err |-> NoErr, value |-> VID(alloc.id),
             conn |-> StoreIdent(alloc.conn, [id |-> alloc.id, name |-> v.s]),
             tempIDs |-> tempIDs]
        Named(res) ==
            IF res.err = NoErr
            THEN [err |-> NoErr, value |-> VID(res.id), conn |-> res.conn, tempIDs |-> tempIDs]
            ELSE IF attrID = IDIdent /\ res.err = ErrNoSuchIdent
            THEN NewIdent(NextID(res.conn))
            ELSE [err |-> res.err, value |-> v, conn |-> res.conn, tempIDs |-> tempIDs]
    IN CASE v.k = "id" -> [err |-> NoErr, value |-> v, conn |-> c, tempIDs |-> tempIDs]
         [] v.k = "tmp" ->
              [err |-> NoErr, value |-> v, conn |-> c,
               tempIDs |-> IF v.s \in DOMAIN tempIDs THEN tempIDs
                           ELSE (v.s :> unresolvedEntityID) @@ tempIDs]
         [] v.k = "ident" -> Named(IdentResolve(c, [id |-> v.n, name |-> v.s]))
         [] OTHER ->
              [err |-> "value for ref attribute must resolve to an ID", value |-> v,
               conn |-> c, tempIDs |-> tempIDs]

\* Value resolution for the other attribute types of the model.
CoerceScalar(valueTypeID, value) ==
    CASE valueTypeID = IDTypeString ->
            IF value.k = "str" THEN [err |-> NoErr, value |-> value]
            ELSE [err |-> "not assignable to a string", value |-> value]
      [] valueTypeID = IDTypeInt64 ->
            IF value.k \in IntKinds THEN [err |-> NoErr, value |-> Int64Of(value)]
            ELSE [err |-> "not assignable to an int64", value |-> value]
      [] valueTypeID = IDTypeBoolean ->
            IF value.k = "bool" THEN [err |-> NoErr, value |-> value]
            ELSE [err |-> "not assignable to a bool", value |-> value]
      [] valueTypeID = IDTypeTimestamp ->
            IF value.k = "time" THEN [err |-> NoErr, value |-> value]
            ELSE IF value.k \in IntKinds THEN [err |-> NoErr, value |-> VTime(value.n)]
            ELSE IF value.k = "str"
            THEN [err |-> "not a valid RFC3339 string", value |-> value]
            ELSE [err |-> "not assignable to a time.Time", value |-> value]
      [] valueTypeID \in {IDTypeInt32, IDTypeInt16, IDTypeInt8} ->
            CoerceNarrow(NarrowInt(valueTypeID), value)
      [] valueTypeID \in {IDTypeDecimal, IDTypeComposite} ->
            [err |-> "panic: type not implemented", value |-> value]
      [] valueTypeID \in {IDTypeFloat64, IDTypeFloat32,
                          IDTypeDate, IDTypeBinary, IDTypeUUID, IDTypeULID} ->
            \* no schema of the model declares an attribute of these types
            [err |-> "attribute type outside the model", value |-> value]
      [] OTHER -> [err |-> "panic: unhandled attribute type", value |-> value]

\* ID resolution of an assertion whose entityID is a tempID.
ResolveTempEntity(c, tempIDs, sym, attr, schemaEntity, value) ==
    LET present == IF sym \in DOMAIN tempIDs THEN tempIDs
                   ELSE (sym :> unresolvedEntityID) @@ tempIDs
        ByID(scan) ==
            IF scan.err # NoErr
            THEN [err |-> scan.err, conn |-> c, tempIDs |-> tempIDs]
            ELSE IF Len(scan.facts) = 0
            THEN [err |-> "no entity found with db/id", conn |-> c, tempIDs |-> tempIDs]
            ELSE IF isIDConflict(tempIDs, sym, value.n)
            THEN [err |-> ErrConflict, conn |-> c, tempIDs |-> tempIDs]
            ELSE [err |-> NoErr, conn |-> c, tempIDs |-> (sym :> value.n) @@ tempIDs]
        ByLookup(look) ==
            IF look.err = NoErr
            THEN IF isIDConflict(tempIDs, sym, look.id)
                 THEN [err |-> ErrConflict, conn |-> look.conn, tempIDs |-> tempIDs]
                 ELSE [err |-> NoErr, conn |-> look.conn,
                       tempIDs |-> (sym :> look.id) @@ tempIDs]
            ELSE IF look.err = ErrNoSuchEntity
            THEN [err |-> NoErr, conn |-> look.conn, tempIDs |-> present]
            ELSE [err |-> look.err, conn |-> look.conn, tempIDs |-> tempIDs]
        ByUnique(isUnique) ==
            IF isUnique.err = NoErr /\ isUnique.val.vals[1].k = "nil"
            THEN [err |-> NoErr, conn |-> c, tempIDs |-> present]
            ELSE IF isUnique.err = NoErr /\ isUnique.val.vals[1].k # "bool"
            THEN [err |-> "panic: interface conversion", conn |-> c, tempIDs |-> tempIDs]
            ELSE IF isUnique.err = NoErr /\ isUnique.val.vals[1].n = 1
            THEN ByLookup(LookupResolve(c, attr.name, value))
            ELSE [err |-> NoErr, conn |-> c, tempIDs |-> present]
    IN CASE attr.id = IDID ->
              IF value.k # "id"
              THEN [err |-> "value for db/id must resolve to an ID", conn |-> c, tempIDs |-> tempIDs]
              ELSE ByID(ScanEAVT(c.eavt, attr.id, AttrPtr(value.n)))
         [] attr.id = IDIdent ->
              IF value.k # "id"
              THEN [err |-> "panic: interface conversion", conn |-> c, tempIDs |-> tempIDs]
              ELSE IF isIDConflict(tempIDs, sym, value.n)
              THEN [err |-> ErrConflict, conn |-> c, tempIDs |-> tempIDs]
              ELSE [err |-> NoErr, conn |-> c, tempIDs |-> (sym :> value.n) @@ tempIDs]
         [] OTHER -> ByUnique(EntityGetID(schemaEntity, IDUnique))

\* One iteration of the first pass, on assertion i.
FirstPassStep(ctx, i) ==
    LET a == ctx.assertions[i]
        fail(err, c) == [ctx EXCEPT !.err = err, !.conn = c]
        done(attr, value, c, tempIDs, eid) ==
            [err |-> NoErr, conn |-> c, tempIDs |-> tempIDs,
             assertions |-> [ctx.assertions EXCEPT
                                ![i] = [a EXCEPT !.attribute = VID(attr.ident.id),
                                                 !.value = value,
                                                 !.entityID = eid]]]
        \* ID resolution, once the value is coerced
        Entity(attr, sch, co) ==
            LET Temp(tmp) ==
                    IF tmp.err # NoErr THEN fail(tmp.err, tmp.conn)
                    ELSE done(attr, co.value, tmp.conn, tmp.tempIDs, a.entityID)
                Named(nam) ==
                    IF nam.err # NoErr THEN fail(nam.err, nam.conn)
                    ELSE done(attr, co.value, nam.conn, co.tempIDs, VID(nam.ident.id))
            IN IF co.err # NoErr THEN fail(co.err, co.conn)
               ELSE CASE a.entityID.k = "id" ->
                           done(attr, co.value, co.conn, co.tempIDs, a.entityID)
                      [] a.entityID.k = "tmp" ->
                           Temp(ResolveTempEntity(co.conn, co.tempIDs, a.entityID.s,
                                                  attr.ident, sch.ent, co.value))
                      [] a.entityID.k = "str" -> Named(ResolveIdent(co.conn, a.entityID))
                      [] OTHER -> done(attr, co.value, co.conn, co.tempIDs, a.entityID)
        Scalar(sch, sca) ==
            [err |-> sca.err, value |-> sca.value, conn |-> sch.conn, tempIDs |-> ctx.tempIDs]
        \* value resolution by the db/type of the attribute
        Typed(attr, sch, valueType) ==
            IF sch.err # NoErr THEN fail(sch.err, sch.conn)
            ELSE IF valueType.err # NoErr THEN fail("not a schema entity", sch.conn)
            ELSE IF valueType.val.vals[1].k # "id"
            THEN fail("panic: interface conversion", sch.conn)
            ELSE Entity(attr, sch,
                        IF valueType.val.vals[1].n = IDTypeRef
                        THEN CoerceRef(sch.conn, ctx.tempIDs, attr.ident.id, a.value)
                        ELSE Scalar(sch, CoerceScalar(valueType.val.vals[1].n, a.value)))
        Schema(attr, sch) == Typed(attr, sch, EntityGetID(sch.ent, IDType))
        Attribute(attr) ==
            IF attr.err # NoErr THEN fail(attr.err, attr.conn)
            ELSE Schema(attr, getSchemaEntity(attr.conn, attr.ident.id))
    IN Attribute(ResolveIdent(ctx.conn, a.attribute))

RECURSIVE FirstPass(_, _)
FirstPass(ctx, i) ==
    IF i > Len(ctx.assertions) \/ ctx.err # NoErr THEN ctx
    ELSE FirstPass(FirstPassStep(ctx, i), i + 1)

(***************************************************************************)
(* Connection.Assert, from the tempID allocation to the write.             *)
(***************************************************************************)
Unresolved(tempIDs) == { sym \in DOMAIN tempIDs : tempIDs[sym] = unresolvedEntityID }

\* An allocation loop that allocates nothing.
AllocateNothing(c, tempIDs, order, i) == [conn |-> c, tempIDs |-> tempIDs]

\* The allocation loop ranges over the tempIDs map; order is the order in
\* which that range meets the unresolved symbols.
RECURSIVE AllocateTempIDs(_, _, _, _)
AllocateTempIDs(c, tempIDs, order, i) ==
    IF i > Len(order) THEN [conn |-> c, tempIDs |-> tempIDs]
    ELSE LET alloc == NextID(c)
         IN AllocateTempIDs(alloc.conn, (order[i] :> alloc.id) @@ tempIDs, order, i + 1)

\* A second pass that stamps no Tx on the facts.
ResolvedWithoutTx(tempIDs, a) ==
    [e |-> IF a.entityID.k = "tmp" THEN tempIDs[a.entityID.s] ELSE a.entityID.n,
     a |-> a.attribute.n,
     v |-> IF a.value.k = "tmp" THEN VID(tempIDs[a.value.s]) ELSE a.value,
     tx |-> unresolvedEntityID,
     mode |-> a.mode]

\* Second pass: the ResolvedAssertion of one Assertion.
Resolved(tempIDs, a) ==
    [e |-> IF a.entityID.k = "tmp" THEN tempIDs[a.entityID.s] ELSE a.entityID.n,
     a |-> a.attribute.n,
     v |-> IF a.value.k = "tmp" THEN VID(tempIDs[a.value.s]) ELSE a.value,
     tx |-> tempIDs["txid"],
     mode |-> a.mode]

SecondPass(tempIDs, assertions) ==
    [i \in 1..Len(assertions) |-> Resolved(tempIDs, assertions[i])]

\* The synthetic transaction assertion.  The struct literal sets no mode, so
\* it carries the zero AssertMode.
TxAssertion(now) ==
    [entityID |-> VTmp("txid"), attribute |-> VStr("db.tx/commitTime"),
     value |-> VU64(now), mode |-> AssertModeInvalid, err |-> NoErr]

\* A call that returns an error.  assertions is the assertions slice as the
\* first pass left it, empty when the call failed.
Failed(err, c) ==
    [err |-> err, data |-> << >>, tempIDs |-> EmptyFn, assertions |-> << >>, conn |-> c]

\* Connection.Assert up to the end of the first pass.
AssertFirstPass(c, assertables, now) ==
    LET Flat(flat) ==
            IF flat.err # NoErr
            THEN [err |-> flat.err, conn |-> flat.conn, tempIDs |-> EmptyFn,
                  assertions |-> << >>]
            ELSE IF \E i \in 1..Len(flat.assertions) : flat.assertions[i].err # NoErr
            THEN [err |-> "invalid assertions", conn |-> flat.conn, tempIDs |-> EmptyFn,
                  assertions |-> << >>]
            ELSE FirstPass([err |-> NoErr, conn |-> flat.conn,
                            tempIDs |-> ("txid" :> unresolvedEntityID),
                            assertions |-> Append(flat.assertions, TxAssertion(now))], 1)
    IN Flat(Flatten([err |-> NoErr, conn |-> c, assertions |-> << >>], assertables, 1))

\* Connection.Assert from the allocation loop on, then Connection.assert.
AssertFinish(ctx, order) ==
    LET bad == \E i \in 1..Len(ctx.assertions) : ctx.assertions[i].entityID.k \notin {"id", "tmp"}
        Written(al, resolved, w) ==
            IF w.err # NoErr THEN Failed("writing assertions", w.conn)
            ELSE [err |-> NoErr, data |-> resolved, tempIDs |-> al.tempIDs,
                  assertions |-> ctx.assertions, conn |-> w.conn]
        Passed(al, resolved) == Written(al, resolved, Write(al.conn, resolved))
        Allocated(al) ==
            IF bad THEN Failed("panic: unhandled entityID type", al.conn)
            ELSE Passed(al, SecondPass(al.tempIDs, ctx.assertions))
    IN Allocated(AllocateTempIDs(ctx.conn, ctx.tempIDs, order, 1))

\* All orderings of a finite set.
RECURSIVE Orderings(_)
Orderings(S) ==
    IF S = {} THEN { << >> }
    ELSE UNION { { << x >> \o t : t \in Orderings(S \ {x}) } : x \in S }

\* The results Connection.Assert can return for one call.
AssertResults(c, assertables, now) ==
    LET Finish(ctx) ==
            IF ctx.err # NoErr THEN { Failed(ctx.err, ctx.conn) }
            ELSE { AssertFinish(ctx, order) : order \in Orderings(Unresolved(ctx.tempIDs)) }
    IN Finish(AssertFirstPass(c, assertables, now))

(***************************************************************************)
(* Connection.InitializeDB.                                                *)
(***************************************************************************)
\* The for txID == 0 loop: NextID until it returns a non-zero ID.
RECURSIVE NextNonZeroID(_)
NextNonZeroID(c) ==
    LET alloc == NextID(c)
    IN IF alloc.id = 0 THEN NextNonZeroID(alloc.conn) ELSE alloc

\* schemaEntities.  The facts of one entity have pairwise distinct attributes,
\* so the order in which the range loop emits them changes no index key.
BootAttr(id, ty, unique, doc) ==
    << << IDIdent, VID(id) >>, << IDType, VID(ty) >>,
       << IDCardinality, VID(IDCardinalityOne) >> >>
    \o (IF unique THEN << << IDUnique, VBool(TRUE) >> >> ELSE << >>)
    \o << << IDDoc, VStr(doc) >> >>

BootEnum(id) == << << IDIdent, VID(id) >> >>

schemaEntities ==
    << BootAttr(IDID, IDTypeInt64, TRUE, "Entity ID"),
       BootAttr(IDIdent, IDTypeRef, TRUE,
                "Global ident. Should be applied to schema entities and global values like enum variants."),
       BootAttr(IDType, IDTypeRef, FALSE, "Schema entity type"),
       BootAttr(IDCardinality, IDTypeRef, FALSE,
                "Cardinality of an attribute. Enumerated value: db.cardinality/one or db.cardinality/many"),
       BootAttr(IDUnique, IDTypeBoolean, FALSE,
                "Whether an attribute is unique. If true, only one entity may have a given value for the attribute."),
       BootAttr(IDIndexed, IDTypeBoolean, FALSE,
                "Whether an attribute is indexed. If true, the attribute will be indexed in the AVET index."),
       BootAttr(IDDoc, IDTypeString, FALSE, "Documentation for an attribute or entity."),
       BootAttr(IDTxCommitTime, IDTypeTimestamp, FALSE, "Timestamp of the transaction commit."),
       BootEnum(IDCardinalityOne), BootEnum(IDCardinalityMany),
       BootEnum(IDTypeString), BootEnum(IDTypeBoolean), BootEnum(IDTypeInt64),
       BootEnum(IDTypeInt32), BootEnum(IDTypeInt16), BootEnum(IDTypeInt8),
       BootEnum(IDTypeFloat64), BootEnum(IDTypeFloat32), BootEnum(IDTypeDecimal),
       BootEnum(IDTypeTimestamp), BootEnum(IDTypeDate), BootEnum(IDTypeRef),
       BootEnum(IDTypeBinary), BootEnum(IDTypeUUID), BootEnum(IDTypeULID),
       BootEnum(IDTypeComposite) >>

RECURSIVE BootAssertions(_, _)
BootAssertions(txID, i) ==
    IF i > Len(schemaEntities) THEN << >>
    ELSE LET ed == schemaEntities[i]
             eid == (CHOOSE j \in 1..Len(ed) : ed[j][1] = IDIdent)
         IN [j \in 1..Len(ed) |->
                [e |-> ed[eid][2].n, a |-> ed[j][1], v |-> ed[j][2], tx |-> txID,
                 mode |-> AssertModeAddition]]
            \o BootAssertions(txID, i + 1)

InitializeDBResult(c, now) ==
    LET Written(assertions, w) ==
            IF w.err # NoErr THEN Failed("asserting initial data", w.conn)
            ELSE [err |-> NoErr, data |-> assertions, tempIDs |-> EmptyFn,
                  assertions |-> << >>, conn |-> w.conn]
        Emit(alloc, assertions) == Written(assertions, Write(alloc.conn, assertions))
        Started(alloc) ==
            Emit(alloc,
                 << [e |-> alloc.id, a |-> IDTxCommitTime, v |-> VU64(now), tx |-> alloc.id,
                     mode |-> AssertModeAddition] >>
                 \o BootAssertions(alloc.id, 1))
    IN Started(NextNonZeroID(c))

(***************************************************************************)
(* The inputs of the model.                                                *)
(***************************************************************************)
\* time.Now().Unix() at every call.
Now == 1700000000

Entry(key, v) == [key |-> key, vals |-> << v >>]
EntryMany(key, vs) == [key |-> key, vals |-> vs]

\* An EntityData literal: the set of its entries.
ED(entries) == [map |-> entries]
IsMap(x) == "map" \in DOMAIN x

\* A schema in the manner of newTestConn, asserted in one call: two unique
\* string attributes, a cardinality/many ref attribute, a timestamp attribute.
SchemaAttr(name, ty, card, unique) ==
    [entries |-> << Entry("db/ident", VStr(name)), Entry("db/type", VStr(ty)),
                    Entry("db/cardinality", VStr(card)) >>
                 \o (IF unique THEN << Entry("db/unique", VBool(TRUE)) >> ELSE << >>),
     idKey |-> "db/ident"]

SchemaBatch ==
    << SchemaAttr("person/email", "db.type/string", "db.cardinality/one", TRUE),
       SchemaAttr("person/ssn", "db.type/string", "db.cardinality/one", TRUE),
       SchemaAttr("person/firstName", "db.type/string", "db.cardinality/one", FALSE),
       SchemaAttr("person/lastName", "db.type/string", "db.cardinality/one", FALSE),
       SchemaAttr("person/pets", "db.type/ref", "db.cardinality/many", FALSE),
       SchemaAttr("pet/name", "db.type/string", "db.cardinality/one", FALSE),
       SchemaAttr("person/born", "db.type/timestamp", "db.cardinality/one", FALSE) >>

\* An entity ID a caller names itself.
ExplicitID == VID(100)
\* A time a caller gives in unix seconds.
BornAt == VI64(5)
\* The zero ID, named by a caller as an entity.
ZeroID == VID(0)
\* Values that are no entity ID and no attribute: guardEntityID and
\* guardAttribute reject them.
NoEntityID == VBool(TRUE)
NoAttribute == VBool(FALSE)

\* The calls of Connection.Assert on user data.  An EntityData is given as a
\* map; the action draws the iteration orders of its range loops.
UserBatches ==
    { << ED({ Entry("person/email", VStr(m)), Entry("person/firstName", VStr("Ann")) }) >>
        : m \in {"a@x", "b@x"} }
    \cup
    { << ED({ Entry("person/email", VStr("b@x")), Entry("person/lastName", VStr("Lee")) }) >>,
      << ED({ Entry("person/email", VStr("b@x")), Entry("person/ssn", VStr("123")) }) >>,
      << ED({ Entry("person/email", VStr("c@x")), Entry("person/ssn", VStr("123")) }) >>,
      << ED({ Entry("person/ssn", VStr("123")), Entry("person/lastName", VStr("Lee")) }) >>,
      << ED({ Entry("person/email", VStr("a@x")) }),
         ED({ Entry("person/email", VStr("b@x")), Entry("person/firstName", VStr("Ann")) }) >>,
      << ED({ Entry("person/ssn", VStr("123")),
              EntryMany("person/pets", << VTmp("p1") >>) }),
         ED({ Entry("db/id", VTmp("p1")), Entry("pet/name", VStr("Rex")) }) >>,
      << ED({ Entry("person/ssn", VStr("123")),
              EntryMany("person/pets", << VTmp("p1"), VTmp("p2") >>) }) >>,
      << NewAssert(ExplicitID, VStr("person/email"), VStr("a@x")) >>,
      << NewRetract(ExplicitID, VStr("person/email"), VStr("a@x")) >>,
      << NewAssert(ExplicitID, VStr("person/born"), BornAt) >>,
      << NewAssert(VTmp("t"), VStr("db/ident"), VStr("person/ssn")),
         NewAssert(VTmp("t"), VStr("person/email"), VStr("a@x")) >>,
      << NewAssert(VTmp("t"), VStr("person/email"), VStr("a@x")),
         NewAssert(VTmp("t"), VStr("db/ident"), VStr("person/ssn")) >>,
      << NewAssert(VTmp("t"), VStr("db/id"), VID(IDIdent)),
         NewAssert(VTmp("t"), VStr("person/email"), VStr("a@x")) >>,
      << NewAssert(VTmp("t"), VStr("person/email"), VStr("a@x")),
         NewAssert(VTmp("t"), VStr("db/id"), VID(IDIdent)) >>,
      << NewAssert(ZeroID, VStr("person/lastName"), VStr("Lee")) >>,
      << ED({ Entry("db/ident", VStr("person/nick")) }),
         NewAssert(NoEntityID, VStr("person/email"), VStr("a@x")) >>,
      << ED({ Entry("db/ident", VStr("person/nick")) }),
         NewRetract(ExplicitID, NoAttribute, VStr("a@x")) >>,
      << ED({ Entry("db/ident", VStr("db/custom")) }) >>,
      << ED({ Entry("db/ident", VStr("db/custom")) }),
         NewAssert(NoEntityID, VStr("person/email"), VStr("a@x")) >>,
      << NewAssert(VTmp("t"), VStr("db/ident"), VStr("db/custom")) >> }

\* The iteration orders of one EntityData: the order of its entries in
\* Assertions and the special key getIdentifier meets first.
Variants(x) ==
    IF ~IsMap(x) THEN { x }
    ELSE LET special == { e.key : e \in { y \in x.map : y.key \in {"db/id", "db/ident"} } }
         IN { [entries |-> p, idKey |-> k] :
                p \in Orderings(x.map),
                k \in IF special = {} THEN {""} ELSE special }

RECURSIVE Expand(_)
Expand(batch) ==
    IF batch = << >> THEN { << >> }
    ELSE { << h >> \o t : h \in Variants(Head(batch)), t \in Expand(Tail(batch)) }

(***************************************************************************)
(* State.                                                                  *)
(***************************************************************************)
\* No scan is running.
NoScan == [pc |-> "idle"]
\* No call of ResolveIdents is between its steps.
NoReader == [pc |-> "idle"]
\* No pipeline has been built.
NoPipe == [pc |-> "idle"]

VARIABLES
    eavt,               \* the EAVT index of the store
    avet,               \* the AVET index of the store
    idents,             \* the Idents table of the store
    identIDByName,      \* the IdentIDByName table of the store
    seq,                \* the next value of the store's ID sequence
    cache,              \* Connection.identCache
    schemaEntityCache,  \* Connection.schemaEntityCache
    history,            \* the calls made so far: input, result, connection after the call
    loader,             \* the goroutine NewConnection starts: pending, done or panicked
    scan,               \* a ScanEAVT call that runs beside the connection's calls
    mu,                 \* identCache.mu: the goroutine that holds it, or free
    reader,             \* a ResolveIdents call that runs in steps beside the goroutine
    pipe                \* a dataflow pipeline: its stages, its input and its collector

vars == << eavt, avet, idents, identIDByName, seq, cache, schemaEntityCache, history,
           loader, scan, mu, reader, pipe >>

Conn ==
    [eavt |-> eavt, avet |-> avet, idents |-> idents, identIDByName |-> identIDByName,
     seq |-> seq, cache |-> cache, schemaEntityCache |-> schemaEntityCache]

SetConn(c) ==
    /\ eavt' = c.eavt
    /\ avet' = c.avet
    /\ idents' = c.idents
    /\ identIDByName' = c.identIDByName
    /\ seq' = c.seq
    /\ cache' = c.cache
    /\ schemaEntityCache' = c.schemaEntityCache

Call(op, input, r) ==
    [op |-> op, input |-> input, err |-> r.err, data |-> r.data, tempIDs |-> r.tempIDs,
     assertions |-> r.assertions, post |-> r.conn]

\* The last call, and the connection it started from.
last == history[Len(history)]
pre == IF Len(history) > 1 THEN history[Len(history) - 1].post ELSE last.post

inits == Cardinality({ i \in 1..Len(history) : history[i].op = "InitializeDB" })
asserts == Cardinality({ i \in 1..Len(history) : history[i].op = "Assert" })

\* NewConnection on an empty store.
Init ==
    /\ eavt = {}
    /\ avet = {}
    /\ idents = {}
    /\ identIDByName = {}
    /\ seq = 0
    /\ cache = newIdentCache
    /\ schemaEntityCache = EmptyFn
    /\ history = << [op |-> "NewConnection", input |-> << >>, err |-> NoErr, data |-> << >>,
                     tempIDs |-> EmptyFn, assertions |-> << >>,
                     post |-> [eavt |-> {}, avet |-> {}, idents |-> {},
                               identIDByName |-> {}, seq |-> 0, cache |-> newIdentCache,
                               schemaEntityCache |-> EmptyFn]] >>
    /\ loader = "pending"
    /\ scan = NoScan
    /\ mu = "free"
    /\ reader = NoReader
    /\ pipe = NoPipe

\* A panic in the goroutine ends the process: no call is made after it.
Running == loader # "panicked"

DoInitializeDB ==
    LET r == InitializeDBResult(Conn, Now)
    IN /\ Running
       /\ SetConn(r.conn)
       /\ history' = Append(history, Call("InitializeDB", << >>, r))
       /\ UNCHANGED << loader, scan, mu, reader, pipe >>

DoAssert(assertables) ==
    \E r \in AssertResults(Conn, assertables, Now) :
        /\ Running
        /\ SetConn(r.conn)
        /\ history' = Append(history, Call("Assert", assertables, r))
        /\ UNCHANGED << loader, scan, mu, reader, pipe >>

\* The goroutine of NewConnection: LoadIdents, then identCache.store of what
\* it loaded.  It runs at any time after NewConnection returns.
LoadIdentsDone ==
    /\ loader = "pending"
    /\ LET r == LoadIdents(Conn)
       IN IF r.panic
          THEN /\ loader' = "panicked"
               /\ UNCHANGED cache
          ELSE /\ loader' = "done"
               /\ cache' = identCacheStore(cache, r.idents, 1)
    /\ UNCHANGED << eavt, avet, idents, identIDByName, seq, schemaEntityCache, history, scan, mu, reader, pipe >>

(***************************************************************************)
(* Spec: the calls in any order.                                           *)
(***************************************************************************)
InitializeDB ==
    /\ inits < MaxInits
    /\ DoInitializeDB

AssertSchema ==
    /\ asserts < MaxAsserts
    /\ DoAssert(SchemaBatch)

AssertUser ==
    /\ asserts < MaxAsserts
    /\ \E b \in UserBatches : \E assertables \in Expand(b) : DoAssert(assertables)

Next == InitializeDB \/ AssertSchema \/ AssertUser \/ LoadIdentsDone

Spec == Init /\ [][Next]_vars

(***************************************************************************)
(* TestSpec: the calls of a test.  newTestConn makes the connection, calls *)
(* InitializeDB and asserts the schema in one call; the test body then     *)
(* asserts user data.                                                      *)
(***************************************************************************)
TestInitializeDB ==
    /\ Len(history) = 1
    /\ DoInitializeDB

TestAssertSchema ==
    /\ Len(history) = 2
    /\ DoAssert(SchemaBatch)

TestAssertUser ==
    /\ Len(history) >= 3
    /\ Len(history) < 3 + MaxTestAsserts
    /\ \E b \in UserBatches : \E assertables \in Expand(b) : DoAssert(assertables)

TestNext == TestInitializeDB \/ TestAssertSchema \/ TestAssertUser \/ LoadIdentsDone

TestSpec == Init /\ [][TestNext]_vars

(***************************************************************************)
(* What the properties observe.                                            *)
(***************************************************************************)
\* The attributes the schema declares db/unique, and the values the calls
\* give them.
UniqueNames == { "person/email", "person/ssn" }
KeyValues == { "a@x", "b@x", "c@x", "123" }

Declared(c, name) == \E x \in c.identIDByName : x.name = name
AttrID(c, name) == (CHOOSE x \in c.identIDByName : x.name = name).id

\* The entities that bear an Addition fact (name, v) in the EAVT index of c.
Bearers(c, name, v) ==
    { x.e : x \in { y \in c.eavt : /\ y.a = AttrID(c, name)
                                    /\ y.mode = AssertModeAddition
                                    /\ y.enc = GobEncode(v) } }

\* The entities of the EAVT index of c.
Entities(c) == { x.e : x \in c.eavt }

Succeeded(call) == call.op = "Assert" /\ call.err = NoErr

(***************************************************************************)
(* C1.                                                                     *)
(***************************************************************************)
\* C1: TempID unification.  In every successful Assert batch, each
\* occurrence of a TempID symbol, in entity position or in value position, is
\* replaced in the resolved facts by the ID AssertResult.TempIDs gives the
\* symbol, and that ID is not 0.
C1_TempIDUnification ==
    Succeeded(last) =>
        \A i \in 1..Len(last.assertions) :
            LET a == last.assertions[i]
                f == last.data[i]
            IN /\ a.entityID.k = "tmp" =>
                    /\ a.entityID.s \in DOMAIN last.tempIDs
                    /\ f.e = last.tempIDs[a.entityID.s]
                    /\ f.e # 0
               /\ a.value.k = "tmp" =>
                    /\ a.value.s \in DOMAIN last.tempIDs
                    /\ f.v = VID(last.tempIDs[a.value.s])
                    /\ f.v.n # 0

\* A successful batch that mentions one symbol in value position and in
\* entity position.
C1_Witness ==
    /\ Succeeded(last)
    /\ \E i, j \in 1..Len(last.assertions) :
          /\ last.assertions[i].value.k = "tmp"
          /\ last.assertions[j].entityID.k = "tmp"
          /\ last.assertions[i].value.s = last.assertions[j].entityID.s
          /\ last.data[i].v = VID(last.data[j].e)

(***************************************************************************)
(* C4.                                                                     *)
(***************************************************************************)
\* C4: Lookup(U, v).Resolve returns the ID of an entity only if that entity
\* bears an Addition fact (U, v), and returns ErrNoSuchEntity when no entity
\* bears (U, v), whatever other values of U are stored.
C4_LookupResolvesBearer ==
    \A U \in UniqueNames, s \in KeyValues :
        Declared(Conn, U) =>
            LET r == LookupResolve(Conn, U, VStr(s))
            IN /\ r.err = NoErr => r.id \in Bearers(Conn, U, VStr(s))
               /\ Bearers(Conn, U, VStr(s)) = {} => r.err = ErrNoSuchEntity

(***************************************************************************)
(* Shapes of the calls the properties speak of.                            *)
(***************************************************************************)
\* The connection call i of the history started from.
PreOf(i) == history[i - 1].post

EntrySet(ed) == { ed.entries[i] : i \in 1..Len(ed.entries) }
KeysOf(ed) == { x.key : x \in EntrySet(ed) }
HasKV(ed, key, v) == \E x \in EntrySet(ed) : x.key = key /\ x.vals = << v >>

\* The k-th assertable of the call is an EntityData without db/id and
\* db/ident: its entity is the TempID the call made for it.
Anonymous(call, k) ==
    /\ call.op = "Assert"
    /\ k \in 1..Len(call.input)
    /\ IsEntityData(call.input[k])
    /\ call.input[k].idKey = ""

\* The entity the facts of that EntityData landed on.
Subject(call, k) == call.tempIDs[FreshSymbols[k]]

\* The call wrote no fact: both indexes are as before it.
WroteNothing(i) ==
    /\ history[i].post.eavt = PreOf(i).eavt
    /\ history[i].post.avet = PreOf(i).avet

(***************************************************************************)
(* C2.                                                                     *)
(***************************************************************************)
\* C2: unique upsert idempotence.  When a transaction asserts an EntityData
\* {U=u, other=x} and a later one asserts an EntityData {U=u, other=y}, U
\* unique and neither with db/id, then exactly one entity bears U=u, that
\* entity bears both other facts, and Lookup(U, u) resolves to the same ID
\* after the first and after the second transaction.
C2_UniqueUpsertIdempotence ==
    \A i, j \in 2..Len(history) : \A ki, kj \in 1..2 : \A U \in UniqueNames, u \in KeyValues :
        ( /\ i < j
          /\ Succeeded(history[i]) /\ Anonymous(history[i], ki)
          /\ Succeeded(history[j]) /\ Anonymous(history[j], kj)
          /\ HasKV(history[i].input[ki], U, VStr(u))
          /\ HasKV(history[j].input[kj], U, VStr(u))
          /\ KeysOf(history[i].input[ki]) \cap KeysOf(history[j].input[kj]) = { U } )
        => LET c == history[j].post
               others == { x \in EntrySet(history[i].input[ki])
                                    \cup EntrySet(history[j].input[kj]) : x.key # U }
               r1 == LookupResolve(history[i].post, U, VStr(u))
               r2 == LookupResolve(c, U, VStr(u))
           IN /\ Cardinality(Bearers(c, U, VStr(u))) = 1
              /\ \A e \in Bearers(c, U, VStr(u)) : \A x \in others :
                    \A n \in 1..Len(x.vals) : e \in Bearers(c, x.key, x.vals[n])
              /\ r1.err = NoErr
              /\ r2.err = NoErr
              /\ r1.id = r2.id

(***************************************************************************)
(* C3.                                                                     *)
(***************************************************************************)
\* C3: an upsert miss creates a new entity.  When an EntityData without
\* db/id and db/ident asserts a value of a unique attribute U that no entity
\* bears, and no other unique attribute of it hits, its TempID gets an ID the
\* call allocates, and the facts land on an entity that bears no other value
\* of U.
C3_UpsertMissCreatesEntity ==
    \A k \in 1..2 : \A U \in UniqueNames, u \in KeyValues :
        ( /\ Len(history) > 1
          /\ Succeeded(last) /\ Anonymous(last, k)
          /\ HasKV(last.input[k], U, VStr(u))
          /\ \A x \in EntrySet(last.input[k]) :
                x.key \in UniqueNames => Bearers(pre, x.key, x.vals[1]) = {} )
        => LET e == Subject(last, k)
           IN /\ e \in pre.seq..(last.post.seq - 1)
              /\ e \notin Entities(pre)
              /\ \A w \in KeyValues \ { u } : e \notin Bearers(pre, U, VStr(w))
              /\ e \in Bearers(Conn, U, VStr(u))

(***************************************************************************)
(* C5.                                                                     *)
(***************************************************************************)
\* Call i created the entity of its k-th EntityData, which bears U1=u1 and
\* U2=u2.
CreatedWith(i, k, u1, u2) ==
    /\ Succeeded(history[i]) /\ Anonymous(history[i], k)
    /\ HasKV(history[i].input[k], "person/email", VStr(u1))
    /\ HasKV(history[i].input[k], "person/ssn", VStr(u2))
    /\ Subject(history[i], k) \notin Entities(PreOf(i))

\* The k-th EntityData of the call is identified by U=u alone.
IdentifiedOnlyBy(call, k, U, u) ==
    /\ Anonymous(call, k)
    /\ HasKV(call.input[k], U, VStr(u))
    /\ KeysOf(call.input[k]) \cap UniqueNames = { U }

\* C5: multi-unique convergence.  Once an entity e is created bearing
\* U1=u1 and U2=u2, both unique, every later Assert of an EntityData
\* identified by U1=u1 alone or by U2=u2 alone puts its facts on e, and in
\* every later state Lookup(U1, u1) and Lookup(U2, u2) resolve to one ID.
C5_MultiUniqueConvergence ==
    \A i \in 2..Len(history) : \A k \in 1..2 : \A u1, u2 \in KeyValues :
        CreatedWith(i, k, u1, u2) =>
            \A j \in i..Len(history) :
                LET r1 == LookupResolve(history[j].post, "person/email", VStr(u1))
                    r2 == LookupResolve(history[j].post, "person/ssn", VStr(u2))
                IN /\ r1.err = NoErr
                   /\ r2.err = NoErr
                   /\ r1.id = r2.id
                   /\ \A m \in 1..2 :
                        ( /\ j > i
                          /\ Succeeded(history[j])
                          /\ \/ IdentifiedOnlyBy(history[j], m, "person/email", u1)
                             \/ IdentifiedOnlyBy(history[j], m, "person/ssn", u2) )
                        => Subject(history[j], m) = Subject(history[i], k)

(***************************************************************************)
(* C6.                                                                     *)
(***************************************************************************)
\* C6: scenario D.  When an entity bears ssn=s, an Assert of one EntityData
\* {email=c, ssn=s}, where email=c is borne by no entity or by another one,
\* fails with ErrConflict and writes no fact, in either order of the two
\* attributes.
C6_ScenarioD ==
    \A c, s \in KeyValues :
        ( /\ Len(history) > 1
          /\ Len(last.input) = 1
          /\ Anonymous(last, 1)
          /\ KeysOf(last.input[1]) = { "person/email", "person/ssn" }
          /\ HasKV(last.input[1], "person/email", VStr(c))
          /\ HasKV(last.input[1], "person/ssn", VStr(s))
          /\ Bearers(pre, "person/ssn", VStr(s)) # {}
          /\ Bearers(pre, "person/email", VStr(c))
                \cap Bearers(pre, "person/ssn", VStr(s)) = {} )
        => /\ last.err = ErrConflict
           /\ WroteNothing(Len(history))

(***************************************************************************)
(* C7.                                                                     *)
(***************************************************************************)
\* The concrete IDs an assertion on a TempID binds its symbol to in
\* connection c: the entity db/id names, the ID of the ident db/ident names,
\* the entity that bears the value of a unique attribute.
Binding(c, a) ==
    CASE a.attribute = VStr("db/id") /\ a.value.k = "id" ->
            { a.value.n } \cap Entities(c)
      [] a.attribute = VStr("db/ident") /\ a.value.k = "str" ->
            { x.id : x \in { y \in c.identIDByName : y.name = a.value.s } }
      [] a.attribute.k = "str" /\ a.attribute.s \in UniqueNames ->
            IF Declared(c, a.attribute.s) THEN Bearers(c, a.attribute.s, a.value) ELSE {}
      [] OTHER -> {}

\* C7: conflict rule.  When two assertions of one batch bind one TempID
\* symbol to two different concrete IDs through db/id, db/ident or a unique
\* attribute, Assert fails with ErrConflict, in either order of the two, and
\* writes no fact of the batch.
C7_ConflictRule ==
    ( /\ Len(history) > 1
      /\ last.op = "Assert"
      /\ \A n \in 1..Len(last.input) : ~IsEntityData(last.input[n])
      /\ \E m, n \in 1..Len(last.input) :
            /\ last.input[m].entityID.k = "tmp"
            /\ last.input[m].entityID = last.input[n].entityID
            /\ \E x \in Binding(pre, last.input[m]) :
                  \E y \in Binding(pre, last.input[n]) : x # y )
    => /\ last.err = ErrConflict
       /\ WroteNothing(Len(history))

(***************************************************************************)
(* C8.                                                                     *)
(***************************************************************************)
\* C8: unique injectivity.  In every state reached by successful Asserts,
\* for each attribute declared db/unique and each value at most one entity
\* bears a current Addition fact.
C8_UniqueInjectivity ==
    (\A i \in 1..Len(history) : history[i].err = NoErr)
    => \A U \in UniqueNames, u \in KeyValues :
          Declared(Conn, U) => Cardinality(Bearers(Conn, U, VStr(u))) <= 1

(***************************************************************************)
(* C9.                                                                     *)
(***************************************************************************)
\* The cardinality/one attributes of the schema.
OneNames ==
    { "person/email", "person/ssn", "person/firstName", "person/lastName", "pet/name",
      "person/born" }

\* The facts on (e, a) that the successful Asserts committed, by call and
\* position in the call's data.
Commits(e, a) ==
    { << i, n >> \in (1..Len(history)) \X (1..8) :
        /\ Succeeded(history[i])
        /\ n <= Len(history[i].data)
        /\ history[i].data[n].e = e
        /\ history[i].data[n].a = a }

Latest(S) ==
    CHOOSE p \in S : \A q \in S : q[1] < p[1] \/ (q[1] = p[1] /\ q[2] <= p[2])

\* C9: read your writes, last write wins.  After successful Asserts, for an
\* entity e and a cardinality/one attribute a whose most recent committed
\* fact is an Addition, GetEntity(e).Get(a) returns the coerced value of
\* that Addition.
C9_ReadYourWrites ==
    (\A i \in 1..Len(history) : history[i].err = NoErr)
    => \A e \in Entities(Conn) : \A name \in OneNames :
          ( /\ Declared(Conn, name)
            /\ Commits(e, AttrID(Conn, name)) # {}
            /\ LET p == Latest(Commits(e, AttrID(Conn, name)))
               IN history[p[1]].data[p[2]].mode = AssertModeAddition )
          => LET p == Latest(Commits(e, AttrID(Conn, name)))
                 g == GetEntityByID(Conn, e)
                 v == EntityGet(g.conn, g.ent, VStr(name))
             IN /\ g.err = NoErr
                /\ v.err = NoErr
                /\ v.val = One(history[p[1]].data[p[2]].v)

(***************************************************************************)
(* C10.                                                                    *)
(***************************************************************************)
\* C10: cardinality-many preservation.  After an Assert of an EntityData
\* that gives person/pets N distinct refs, GetEntity of its entity returns
\* for person/pets a list that holds each of the N resolved IDs exactly once.
C10_CardinalityManyPreservation ==
    \A k \in 1..2 :
        ( /\ Len(history) > 1
          /\ Succeeded(last) /\ Anonymous(last, k)
          /\ "person/pets" \in KeysOf(last.input[k]) )
        => LET refs == (CHOOSE x \in EntrySet(last.input[k]) : x.key = "person/pets").vals
               g == GetEntityByID(Conn, Subject(last, k))
               pets == AttrID(Conn, "person/pets")
           IN /\ g.err = NoErr
              /\ pets \in DOMAIN g.ent.state
              /\ g.ent.state[pets].many
              /\ \A n \in 1..Len(refs) :
                    Cardinality({ m \in 1..Len(g.ent.state[pets].vals) :
                        g.ent.state[pets].vals[m] = VID(last.tempIDs[refs[n].s]) }) = 1

(***************************************************************************)
(* C11: all-or-nothing commit.                                             *)
(***************************************************************************)
\* The resolved facts a call returned.
FactsOf(call) == { call.data[i] : i \in 1..Len(call.data) }

\* The fact is stored in the EAVT index, and in the AVET index, of c.
InEAVT(c, f) == writeEAVT(f) \in c.eavt
InAVET(c, f) == writeAVET(f) \in c.avet

\* C11: all-or-nothing commit.  An Assert that returns an error leaves both
\* indexes as they were before the call; after an Assert that succeeds,
\* every resolved fact of the batch is stored in both indexes.
C11_AllOrNothingCommit ==
    \A i \in 2..Len(history) :
        history[i].op = "Assert" =>
            IF history[i].err # NoErr
            THEN /\ history[i].post.eavt = PreOf(i).eavt
                 /\ history[i].post.avet = PreOf(i).avet
            ELSE \A f \in FactsOf(history[i]) :
                    InEAVT(history[i].post, f) /\ InAVET(history[i].post, f)

\* The half of C11 about failed calls.
C11_FailedWritesNothing ==
    \A i \in 2..Len(history) :
        (history[i].op = "Assert" /\ history[i].err # NoErr)
            => /\ history[i].post.eavt = PreOf(i).eavt
               /\ history[i].post.avet = PreOf(i).avet

(***************************************************************************)
(* ScanSpec: a ScanEAVT call of a second goroutine beside the calls of the *)
(* test.  badger runs the callback of db.View on the store as it was when  *)
(* the View began and commits the writes of a db.Update callback together; *)
(* typeFor opens a View of its own for every item.                         *)
(***************************************************************************)
MaxScanAsserts == 2

\* The user calls made beside the scan.
ScanBatches ==
    { << ED({ Entry("person/email", VStr(m)), Entry("person/firstName", VStr("Ann")) }) >>
        : m \in {"a@x", "b@x"} }
    \cup
    { << NewAssert(ExplicitID, VStr("person/email"), VStr("a@x")) >>,
      << NewRetract(ExplicitID, VStr("person/email"), VStr("a@x")) >> }

\* The entities that bear a fact of a user attribute.
UserEntities(c) == { x.e : x \in { y \in c.eavt : y.a > 0 } }

\* An iterator that reads the store as it is at every step.
IteratorLive(sc) == eavt

\* What the iterator of the scan reads: the store as of the start of the View.
IteratorSource(sc) == sc.snap

\* The entries the iterator has still to yield: those of the prefix whose
\* key is after the last key it yielded.
ScanRemaining(sc) ==
    { x \in IteratorSource(sc) : x.e = sc.e /\ (sc.lastKey.nil \/ U64Less(sc.lastKey.id, x.a)) }

\* ScanEAVT enters db.View.
ScanOpen(e) ==
    /\ Running
    /\ scan.pc = "idle"
    /\ scan' = [pc |-> "open", e |-> e, snap |-> eavt, lastKey |-> NilAttr, facts |-> << >>,
                steps |-> << >>, err |-> NoErr, begin |-> Len(history), end |-> Len(history)]
    /\ UNCHANGED << eavt, avet, idents, identIDByName, seq, cache, schemaEntityCache,
                    history, loader, mu, reader, pipe >>

\* One iteration of the loop of ScanEAVT; steps records how many calls the
\* connection had made when the item was read.
ScanStep ==
    /\ Running
    /\ scan.pc = "open"
    /\ scan.err = NoErr
    /\ ScanRemaining(scan) # {}
    /\ LET x == SortEAVT(ScanRemaining(scan))[1]
           item == ScanEAVTItem(eavt, x)
       IN scan' = [scan EXCEPT !.lastKey = AttrPtr(x.a),
                               !.err = item.err,
                               !.steps = Append(@, Len(history)),
                               !.facts = IF item.err = NoErr THEN Append(@, item.fct) ELSE @]
    /\ UNCHANGED << eavt, avet, idents, identIDByName, seq, cache, schemaEntityCache,
                    history, loader, mu, reader, pipe >>

\* The loop ends, and ScanEAVT returns its facts or its error.
ScanClose ==
    /\ Running
    /\ scan.pc = "open"
    /\ scan.err # NoErr \/ ScanRemaining(scan) = {}
    /\ scan' = [scan EXCEPT !.pc = "closed",
                            !.end = Len(history),
                            !.facts = IF scan.err = NoErr THEN @ ELSE << >>]
    /\ UNCHANGED << eavt, avet, idents, identIDByName, seq, cache, schemaEntityCache,
                    history, loader, mu, reader, pipe >>

ScanAssertUser ==
    /\ Len(history) >= 3
    /\ Len(history) < 3 + MaxScanAsserts
    /\ \E b \in ScanBatches : \E assertables \in Expand(b) : DoAssert(assertables)

ScanEntity == \E e \in UserEntities(Conn) : ScanOpen(e)

ScanNext ==
    \/ TestInitializeDB
    \/ TestAssertSchema
    \/ ScanAssertUser
    \/ LoadIdentsDone
    \/ ScanEntity
    \/ ScanStep
    \/ ScanClose

ScanSpec == Init /\ [][ScanNext]_vars

\* The facts of a call on the scanned entity, and those of them that the
\* scan returned: a returned fact carries the Tx of the call that wrote it.
BatchOn(call, e) == { f \in FactsOf(call) : f.e = e }
SeenOf(call) ==
    { f \in BatchOn(call, scan.e) :
        \E n \in 1..Len(scan.facts) : scan.facts[n].a = f.a /\ scan.facts[n].tx = f.tx }

\* C12: atomic visibility.  When a scan of an entity has returned, then of
\* every Assert that committed while the scan ran, the scan returned either
\* all the facts of the batch on that entity or none of them.
C12_AtomicVisibility ==
    scan.pc = "closed" =>
        \A i \in (scan.begin + 1)..scan.end :
            Succeeded(history[i]) =>
                \/ SeenOf(history[i]) = {}
                \/ SeenOf(history[i]) = BatchOn(history[i], scan.e)

\* A scan returned at least two facts, and between two of its items an
\* Assert committed at least two facts on the scanned entity.
C12_Witness ==
    /\ scan.pc = "closed"
    /\ scan.err = NoErr
    /\ \E i \in (scan.begin + 1)..scan.end :
          /\ Succeeded(history[i])
          /\ Cardinality(BatchOn(history[i], scan.e)) >= 2
          /\ \E n, m \in 1..Len(scan.steps) : scan.steps[n] < i /\ scan.steps[m] >= i

(***************************************************************************)
(* C13: validation before any write.                                       *)
(***************************************************************************)
\* An Assertion of the batch that one of the guards rejects.
Invalid(a) ==
    /\ ~IsEntityData(a)
    /\ ~(guardMode(a.mode) /\ guardEntityID(a.entityID) /\ guardAttribute(a.attribute))
HasInvalid(call) ==
    call.op = "Assert" /\ \E k \in 1..Len(call.input) : Invalid(call.input[k])

\* Call i allocated no ID, stored no ident and wrote no fact.
NoBackendWrite(i) ==
    /\ history[i].post.seq = PreOf(i).seq
    /\ history[i].post.idents = PreOf(i).idents
    /\ history[i].post.identIDByName = PreOf(i).identIDByName
    /\ history[i].post.eavt = PreOf(i).eavt
    /\ history[i].post.avet = PreOf(i).avet

\* The error of the loop that flattens the batch of call i.
FlattenErr(i) ==
    Flatten([err |-> NoErr, conn |-> PreOf(i), assertions |-> << >>], history[i].input, 1).err

Committed(call) == call.op \in {"InitializeDB", "Assert"} /\ call.err = NoErr

\* C14: append-only facts.  A fact (E, A, V, Tx, Mode) that a transaction
\* left in an index is in that index in every later state: a later assertion
\* on the same (E, A) neither replaces nor removes it.
C14_AppendOnlyFacts ==
    \A i \in 2..Len(history) :
        Committed(history[i]) =>
            \A f \in FactsOf(history[i]) :
                /\ InEAVT(history[i].post, f) => InEAVT(Conn, f)
                /\ InAVET(history[i].post, f) => InAVET(Conn, f)

(***************************************************************************)
(* C15: no stored fact has the zero Tx or the zero EntityID.               *)
(***************************************************************************)
\* C15: in every reachable state, every fact that InitializeDB or Assert
\* stored has Tx # 0 and EntityID # 0.
C15_NoZeroTxOrEntity ==
    /\ \A x \in eavt : x.tx # 0 /\ x.e # 0
    /\ \A x \in avet : x.tx # 0 /\ x.e # 0

\* The half of C15 about Tx.
C15_NoZeroTx ==
    /\ \A x \in eavt : x.tx # 0
    /\ \A x \in avet : x.tx # 0

(***************************************************************************)
(* C16: transaction order.                                                 *)
(***************************************************************************)
\* The Tx ID of a successful Assert: what its "txid" TempID resolved to.
TxOf(call) == call.tempIDs["txid"]

\* C16: transaction order.  Every fact of a successful Assert carries the
\* one Tx ID allocated for that call, and of two successful Asserts on the
\* connection the later has the strictly greater Tx ID.
C16_TransactionOrder ==
    \A i, j \in 2..Len(history) :
        (Succeeded(history[i]) /\ Succeeded(history[j]) /\ i < j)
            => /\ \A f \in FactsOf(history[i]) : f.tx = TxOf(history[i])
               /\ \A f \in FactsOf(history[j]) : f.tx = TxOf(history[j])
               /\ TxOf(history[i]) < TxOf(history[j])

\* Three successful Asserts, the last two on user data where the earlier of
\* them allocated IDs besides its Tx ID.
C16_Witness ==
    /\ Len(history) = 5
    /\ Succeeded(history[3]) /\ Succeeded(history[4]) /\ Succeeded(history[5])
    /\ DOMAIN history[4].tempIDs # {"txid"}
    /\ FactsOf(history[5]) # {}

(***************************************************************************)
(* IdentSpec: calls of ResolveIdents after the fixture of a test, on the   *)
(* connection that made the schema and on a new connection to its store.   *)
(***************************************************************************)
MaxResolves == 2
MaxReconnects == 1

\* A name and an ID that no ident has, and a name of the reserved namespace
\* that is no system ident.
UnknownName == VStr("person/nope")
UnknownID == VID(50)
ReservedName == VStr("db/custom")

\* The arguments of ResolveIdents: names, IDs and resolved Idents of the
\* schema, and arguments that have no ident.
ResolveElems(c) ==
    { VStr("person/email"), VStr("person/ssn"),
      VID(AttrID(c, "person/email")),
      VIdent(AttrID(c, "person/ssn"), "person/ssn"),
      UnknownName, UnknownID, ReservedName }

KnownElems(c) ==
    { VStr("person/email"), VStr("person/ssn"),
      VID(AttrID(c, "person/email")) }

ResolveInputs(c) ==
    { << x >> : x \in ResolveElems(c) }
    \cup { << x, y >> : x \in KnownElems(c), y \in ResolveElems(c) }
    \cup { << UnknownName, ReservedName >>, << UnknownID, VStr("person/email") >>,
           << ReservedName, UnknownID >> }
    \cup { << VStr("person/ssn"), VID(AttrID(c, "person/firstName")),
              VIdent(AttrID(c, "person/email"), "person/email"), VStr("person/lastName") >>,
           << VID(AttrID(c, "person/pets")), VStr("person/lastName"),
              VID(AttrID(c, "person/ssn")), VStr("person/email") >>,
           << VStr("db/ident"), VID(IDType), VStr("person/email") >>,
           << VStr("person/email"), NoAttribute >> }

\* The user call made before the calls of ResolveIdents: it resolves, and so
\* caches, the attribute names it uses.
IdentBatches ==
    { << ED({ Entry("person/email", VStr("a@x")), Entry("person/firstName", VStr("Ann")) }) >>,
      << ED({ Entry("db/ident", ReservedName) }) >>,
      << NewAssert(VTmp("t"), VStr("db/ident"), ReservedName) >> }

resolves == Cardinality({ i \in 1..Len(history) : history[i].op = "ResolveIdents" })
reconnects == Cardinality({ i \in 2..Len(history) : history[i].op = "NewConnection" })

IdentAssertUser ==
    /\ Len(history) = 3
    /\ \E b \in IdentBatches : \E assertables \in Expand(b) : DoAssert(assertables)

\* A call of Connection.ResolveIdents.
DoResolveIdents(args) ==
    LET r == ResolveIdents(Conn, args)
    IN /\ Running
       /\ SetConn(r.conn)
       /\ history' = Append(history,
                        [op |-> "ResolveIdents", input |-> args, err |-> r.err, data |-> r.out,
                         tempIDs |-> EmptyFn, assertions |-> << >>, post |-> r.conn])
       /\ UNCHANGED << loader, scan, mu, reader, pipe >>

IdentResolveIdents ==
    /\ Len(history) >= 3
    /\ resolves < MaxResolves
    /\ \E args \in ResolveInputs(Conn) : DoResolveIdents(args)

\* NewConnection on the store of the test, once the goroutine of the first
\* connection has ended: new caches, and a goroutine that loads the idents.
Reconnect ==
    /\ Len(history) >= 3
    /\ reconnects < MaxReconnects
    /\ loader = "done"
    /\ cache' = newIdentCache
    /\ schemaEntityCache' = EmptyFn
    /\ loader' = "pending"
    /\ history' = Append(history,
                     [op |-> "NewConnection", input |-> << >>, err |-> NoErr, data |-> << >>,
                      tempIDs |-> EmptyFn, assertions |-> << >>,
                      post |-> [Conn EXCEPT !.cache = newIdentCache,
                                            !.schemaEntityCache = EmptyFn]])
    /\ UNCHANGED << eavt, avet, idents, identIDByName, seq, scan, mu, reader, pipe >>

IdentNext ==
    \/ TestInitializeDB
    \/ TestAssertSchema
    \/ IdentAssertUser
    \/ IdentResolveIdents
    \/ Reconnect
    \/ LoadIdentsDone

IdentSpec == Init /\ [][IdentNext]_vars


(***************************************************************************)
(* C17.                                                                    *)
(***************************************************************************)
\* The idents that the successful Assert calls so far have stored.
CommittedIdents ==
    UNION { history[i].post.idents \ PreOf(i).idents :
              i \in { j \in 2..Len(history) : Succeeded(history[j]) } }

\* What a caller of ResolveIdents([x]) gets on the connection of the state:
\* the process that LoadIdents has made panic returns nothing.
Answer(x) ==
    LET Got(r) == IF r.err = NoErr THEN r.out ELSE << >>
    IN IF Running THEN Got(ResolveIdents(Conn, << x >>)) ELSE << >>

\* C17: Ident bijectivity.  For every ident (id, name) that a committed
\* db/ident assertion created, in every later state, on the connection that
\* created it and on a new connection to the same store,
\* ResolveIdents([name]) and ResolveIdents([id]) both return [(id, name)].
C17_IdentBijectivity ==
    \A x \in CommittedIdents :
        /\ Answer(VStr(x.name)) = << x >>
        /\ Answer(VID(x.id)) = << x >>

\* The part of C17 that the code keeps: while the process runs, a committed
\* ident resolves by name and by ID to the same pair.
C17_BijectiveWhileRunning ==
    Running => C17_IdentBijectivity


(***************************************************************************)
(* C18.                                                                    *)
(***************************************************************************)
\* The ident of an argument of ResolveIdents, read from the system idents
\* and the persistent ident tables of c.
IdentOf(c, x) ==
    LET sys == { SystemIdents[j] : j \in 1..Len(SystemIdents) }
        known == sys \cup c.idents
    IN CASE x.k = "ident" -> [id |-> x.n, name |-> x.s]
         [] x.k = "str" -> CHOOSE y \in known : y.name = x.s
         [] x.k = "id" -> CHOOSE y \in known : y.id = x.n

Resolved18(i) == history[i].op = "ResolveIdents" /\ history[i].err = NoErr

\* C18: the output of ResolveIdents is element-wise parallel to its input.
\* For any mixture of resolved Idents, IDs and names, cached or not, a call
\* that succeeds returns as many idents as it was given arguments, and
\* output[k] is the ident of input[k] for every k.
C18_ParallelOutput ==
    \A i \in 2..Len(history) :
        Resolved18(i) =>
            /\ Len(history[i].data) = Len(history[i].input)
            /\ \A k \in 1..Len(history[i].input) :
                   history[i].data[k] = IdentOf(PreOf(i), history[i].input[k])

\* A call that succeeded on a name and an ID the cache did not have, a
\* resolved Ident, and a second name the backend had to look up.
C18_Witness ==
    \E i \in 2..Len(history) :
        /\ Resolved18(i)
        /\ Len(history[i].input) = 4
        /\ history[i].input[1].k = "str"
        /\ history[i].input[1].s \notin DOMAIN PreOf(i).cache.identIdxName
        /\ history[i].input[2].k = "id"
        /\ history[i].input[2].n \notin DOMAIN PreOf(i).cache.identIdxID
        /\ history[i].input[3].k = "ident"
        /\ history[i].input[4].k = "str"
        /\ history[i].input[4].s \notin DOMAIN PreOf(i).cache.identIdxName
        /\ history[i].input[4].s # history[i].input[1].s


(***************************************************************************)
(* C19.                                                                    *)
(***************************************************************************)
\* The argument x of ResolveIdents is a name or an ID that no system ident
\* and no stored ident of c has.
HasNoIdent(c, x) ==
    LET known == { SystemIdents[j] : j \in 1..Len(SystemIdents) } \cup c.idents
    IN \/ x.k = "str" /\ \A y \in known : y.name # x.s
       \/ x.k = "id" /\ \A y \in known : y.id # x.n

\* Call i of the history is a ResolveIdents call on names, IDs and Idents of
\* which at least one has no ident.
Unresolvable(i) ==
    /\ history[i].op = "ResolveIdents"
    /\ \A k \in 1..Len(history[i].input) : history[i].input[k].k \in {"ident", "id", "str"}
    /\ \E k \in 1..Len(history[i].input) : HasNoIdent(PreOf(i), history[i].input[k])

\* Call i left the persistent ident tables, the ID sequence and the indexes
\* as they were.
NothingAllocated(i) ==
    /\ history[i].post.idents = PreOf(i).idents
    /\ history[i].post.identIDByName = PreOf(i).identIDByName
    /\ history[i].post.seq = PreOf(i).seq
    /\ history[i].post.eavt = PreOf(i).eavt
    /\ history[i].post.avet = PreOf(i).avet

ReservedAsked(i) ==
    \E k \in 1..Len(history[i].input) :
        /\ history[i].input[k].k = "str"
        /\ history[i].input[k].s \in DbSlashNames
        /\ HasNoIdent(PreOf(i), history[i].input[k])

UsesReservedIdent(call) ==
    /\ call.op = "Assert"
    /\ \E k \in 1..Len(call.input) :
           IF "entries" \in DOMAIN call.input[k]
           THEN \E j \in 1..Len(call.input[k].entries) :
                    /\ call.input[k].entries[j].key = "db/ident"
                    /\ call.input[k].entries[j].vals = << ReservedName >>
           ELSE /\ call.input[k].attribute = VStr("db/ident")
                /\ call.input[k].value = ReservedName

\* C20: reserved-name rejection.  ResolveIdents given a name that starts
\* with "db/" and is no system ident fails with an error that is not
\* ErrNoSuchIdent, and an Assert that gives such a name as the value of
\* db/ident fails without allocating an ID or storing an ident for it.
C20_ReservedNameRejected ==
    \A i \in 2..Len(history) :
        /\ Unresolvable(i) /\ ReservedAsked(i) =>
               /\ history[i].err \notin { NoErr, ErrNoSuchIdent }
               /\ NothingAllocated(i)
        /\ UsesReservedIdent(history[i]) =>
               /\ history[i].err # NoErr
               /\ NothingAllocated(i)
               /\ \A x \in history[i].post.idents : x.name # ReservedName.s

\* ResolveIdents has refused the reserved name, and an Assert with the
\* reserved name as db/ident value has failed.
C20_Witness ==
    /\ \E i \in 2..Len(history) :
           /\ history[i].op = "ResolveIdents"
           /\ history[i].input = << ReservedName >>
           /\ history[i].err = "reserved namespace"
    /\ \E i \in 2..Len(history) :
           /\ UsesReservedIdent(history[i])
           /\ history[i].err # NoErr


(***************************************************************************)
(* BootSpec: the fixture of a test, at most one user call, and a second    *)
(* call of InitializeDB on the initialized store.                          *)
(***************************************************************************)
MaxReinits == 1

\* A name of the "db." namespace that is no system ident.
DotName == VStr("db.custom/attr")

\* The user calls of the tests, one that declares a new attribute (as
\* TestAssert does) in every iteration order of its map, calls that use
\* as an attribute an ident without a db/type: an enum value, a system
\* ident that has no entity, and an attribute declared in the same batch,
\* calls that declare an ident of the "db." namespace, a map that carries
\* both db/id and db/ident, and a map that declares an ident and refers to
\* its name in a ref value.
BootBatches ==
    UserBatches
    \cup { << ED({ Entry("db/ident", DotName) }) >>,
           << NewAssert(VTmp("t"), VStr("db/ident"), DotName) >>,
           << ED({ Entry("db/id", ExplicitID), Entry("db/ident", VStr("person/email")),
                   Entry("person/firstName", VStr("Ann")) }) >>,
           << ED({ Entry("db/ident", VStr("person/nick")),
                   EntryMany("person/pets", << VStr("person/nick") >>) }) >>, << ED({ Entry("db/ident", VStr("person/nick")),
                   Entry("db/type", VStr("db.type/string")),
                   Entry("db/doc", VStr("Nick")) }) >>,
           << NewAssert(ExplicitID, VStr("db.cardinality/one"), VStr("Ann")) >>,
           << NewAssert(ExplicitID, VStr("db/compositeComponents"), VStr("Ann")) >>,
           << ED({ Entry("db/ident", VStr("person/nick")),
                   Entry("db/type", VStr("db.type/string")) }),
              NewAssert(ExplicitID, VStr("person/nick"), VStr("Ann")) >> }

BootAssertUser ==
    /\ Len(history) >= 3
    /\ asserts < 2
    /\ \E b \in BootBatches : \E assertables \in Expand(b) : DoAssert(assertables)

\* The caller whose call failed declares the attribute person/nick in a
\* call of its own.
BootAssertAgain ==
    /\ Len(history) = 4
    /\ last.op = "Assert"
    /\ last.err # NoErr
    /\ \E assertables \in Expand(<< ED({ Entry("db/ident", VStr("person/nick")),
                                         Entry("db/type", VStr("db.type/string")),
                                         Entry("db/cardinality", VStr("db.cardinality/one")) }) >>) :
          DoAssert(assertables)

\* InitializeDB called again: the code has no check that the store is
\* already initialized.
ReInitializeDB ==
    /\ Len(history) >= 3
    /\ inits <= MaxReinits
    /\ DoInitializeDB

BootNext ==
    \/ TestInitializeDB
    \/ TestAssertSchema
    \/ BootAssertUser
    \/ BootAssertAgain
    \/ ReInitializeDB
    \/ LoadIdentsDone

BootSpec == Init /\ [][BootNext]_vars

(***************************************************************************)
(* C21.                                                                    *)
(***************************************************************************)
\* Call i of the history is InitializeDB on a store that an earlier call
\* has initialized.
Reinitialized(i) ==
    /\ history[i].op = "InitializeDB"
    /\ history[i].err = NoErr
    /\ \E j \in 2..(i - 1) : history[j].op = "InitializeDB" /\ history[j].err = NoErr

\* C21: bootstrap idempotence.  InitializeDB on a store that has already
\* been initialized leaves the stored facts unchanged.
C21_BootstrapIdempotent ==
    \A i \in 3..Len(history) :
        Reinitialized(i) =>
            /\ history[i].post.eavt = PreOf(i).eavt
            /\ history[i].post.avet = PreOf(i).avet


(***************************************************************************)
(* C22.                                                                    *)
(***************************************************************************)
\* The AEVT and VAET tables of the store: badgerStore.Write sets an EAVT and
\* an AVET key for each assertion and no other key.
aevt(c) == {}
vaet(c) == {}

\* badgerStore.ScanAEVT and badgerStore.ScanVAET: both panic.
ScanAEVT(c, attribute, entityID) == [panic |-> TRUE, facts |-> << >>]
ScanVAET(c, val, attribute) == [panic |-> TRUE, facts |-> << >>]

\* The fact f is among the facts of a scan that returned.
Returns(scanned, f) ==
    /\ ~scanned.panic
    /\ \E k \in 1..Len(scanned.facts) :
           /\ scanned.facts[k].e = f.e
           /\ scanned.facts[k].a = f.a
           /\ scanned.facts[k].tx = f.tx

\* C22: four covering indexes.  After a successful write every written fact
\* is present in EAVT, AEVT, AVET and VAET, and the scan of each index
\* returns it for the matching key.
C22_FourCoveringIndexes ==
    \A i \in 2..Len(history) :
        Succeeded(history[i]) =>
            \A f \in FactsOf(history[i]) :
                /\ InEAVT(history[i].post, f)
                /\ InAVET(history[i].post, f)
                /\ [e |-> f.e, a |-> f.a, enc |-> GobEncode(f.v)] \in aevt(history[i].post)
                /\ [e |-> f.e, a |-> f.a, enc |-> GobEncode(f.v)] \in vaet(history[i].post)
                /\ Returns(ScanAEVT(history[i].post, f.a, AttrPtr(f.e)), f)
                /\ Returns(ScanVAET(history[i].post, f.v, AttrPtr(f.a)), f)


(***************************************************************************)
(* C23.                                                                    *)
(***************************************************************************)
\* The name an EntityData gives for db/ident.
IdentNameOf(x) ==
    x.entries[CHOOSE j \in 1..Len(x.entries) : x.entries[j].key = "db/ident"].vals[1].s

\* Item k of the successful Assert call i is an EntityData whose db/ident is
\* a name that no ident of the store had before the call.
DeclaresIdent(i, k) ==
    /\ Succeeded(history[i])
    /\ k \in 1..Len(history[i].input)
    /\ "entries" \in DOMAIN history[i].input[k]
    /\ \E j \in 1..Len(history[i].input[k].entries) :
           history[i].input[k].entries[j].key = "db/ident"
    /\ HasNoIdent(PreOf(i), VStr(IdentNameOf(history[i].input[k])))

\* The ID of the attribute an EntityData names by a key.
KeyID(c, key) ==
    LET known == { SystemIdents[j] : j \in 1..Len(SystemIdents) } \cup c.idents
    IN (CHOOSE y \in known : y.name = key).id

\* The call stored the ident x for the EntityData ed: x has an ID of the
\* sequence that was unused before the call, every entry of ed is a fact on
\* that ID, the name resolves to x, and GetEntity of the ID returns the
\* value of every entry.
CreatedIdent(call, c0, ed, x) ==
    LET Read(g) ==
            /\ g.err = NoErr
            /\ \A j \in 1..Len(ed.entries) :
                   \E f \in FactsOf(call) :
                       /\ f.e = x.id
                       /\ f.a = KeyID(call.post, ed.entries[j].key)
                       /\ f.mode = AssertModeAddition
                       /\ f.a \in DOMAIN g.ent.state
                       /\ \E n \in 1..Len(g.ent.state[f.a].vals) :
                              g.ent.state[f.a].vals[n] = f.v
        Named(r) == r.err = NoErr /\ r.out = << x >>
    IN /\ x.id >= c0.seq
       /\ x.id < call.post.seq
       /\ \E f \in FactsOf(call) : f.e = x.id /\ f.a = IDIdent /\ f.v = VID(x.id)
       /\ Named(ResolveIdents(call.post, << VStr(x.name) >>))
       /\ Read(GetEntityByID(call.post, x.id))

HasType(ty, v) ==
    CASE ty = IDTypeRef -> v.k = "id"
      [] ty = IDTypeString -> v.k = "str"
      [] ty = IDTypeBoolean -> v.k = "bool"
      [] ty = IDTypeInt64 -> v.k = "i64"
      [] ty = IDTypeTimestamp -> v.k = "time"
      [] OTHER -> FALSE

\* Every fact the call wrote has a value of the type declared for its
\* attribute in the store the call left.
TypedFacts(call) ==
    \A f \in FactsOf(call) :
        LET Typed(ty) == ty.err = NoErr /\ HasType(ty.id, f.v)
        IN Typed(typeFor(call.post.eavt, f.a))

\* C24: typed facts.  In every reachable state, every fact written by
\* InitializeDB or by Assert has a value whose type is exactly the db/type
\* declared for its attribute, the db.tx/commitTime fact of each
\* transaction included.
C24_TypedFacts ==
    \A i \in 2..Len(history) :
        (history[i].op \in {"InitializeDB", "Assert"} /\ history[i].err = NoErr)
            => TypedFacts(history[i])

\* The part of C24 about Assert: the first pass coerces every value, the
\* commit time included, to the declared type.
C24_AssertTypedFacts ==
    \A i \in 2..Len(history) : Succeeded(history[i]) => TypedFacts(history[i])


(***************************************************************************)
(* RangeSpec: a schema with an int8, an int16, an int32 and an int64        *)
(* attribute, and one user call that asserts integers of every kind on     *)
(* them.                                                                   *)
(***************************************************************************)
RangeNames == { "sample/int8", "sample/int16", "sample/int32" }

RangeSchema ==
    << SchemaAttr("sample/int8", "db.type/int8", "db.cardinality/one", FALSE),
       SchemaAttr("sample/int16", "db.type/int16", "db.cardinality/one", FALSE),
       SchemaAttr("sample/int32", "db.type/int32", "db.cardinality/one", FALSE),
       SchemaAttr("sample/int64", "db.type/int64", "db.cardinality/one", FALSE) >>

\* The numbers around the bounds of the narrow types and of the unsigned
\* kinds, and 40000.
RangeNumbers ==
    { 0, -1, 5, MaxInt8, MaxInt8 + 1, MinInt8, MinInt8 - 1, 255,
      MaxInt16, MaxInt16 + 1, 40000, MinInt16, MinInt16 - 1, 65535,
      MaxInt32, MinInt32 }

\* The number n is a value of the Go integer kind k.
KindHolds(k, n) ==
    CASE k = "i8" -> n >= MinInt8 /\ n <= MaxInt8
      [] k = "u8" -> n >= 0 /\ n <= 255
      [] k = "i16" -> n >= MinInt16 /\ n <= MaxInt16
      [] k = "u16" -> n >= 0 /\ n <= 65535
      [] k \in {"u32", "u64", "uint"} -> n >= 0
      [] OTHER -> TRUE

RangeValues ==
    { v \in [k : IntKinds, n : RangeNumbers, s : {""}] : KindHolds(v.k, v.n) }
    \cup { VWide(k, 1) : k \in {"i64", "int", "u64", "uint", "u32"} }
    \cup { VWide(k, -1) : k \in {"i64", "int"} }
    \cup { VWide(k, AboveInt64) : k \in {"u64", "uint"} }

RangeAssertSchema ==
    /\ Len(history) = 2
    /\ DoAssert(RangeSchema)

\* One assertion on an integer attribute, alone or after an assertion that
\* is in range.
RangeAssertUser ==
    /\ Len(history) = 3
    /\ \E name \in RangeNames \cup { "sample/int64" } : \E v \in RangeValues :
           \/ DoAssert(<< NewAssert(ExplicitID, VStr(name), v) >>)
           \/ /\ name # "sample/int8"
              /\ DoAssert(<< NewAssert(ExplicitID, VStr("sample/int8"), Val("i64", 5, "")),
                             NewAssert(ExplicitID, VStr(name), v) >>)

RangeNext ==
    \/ TestInitializeDB
    \/ RangeAssertSchema
    \/ RangeAssertUser
    \/ LoadIdentsDone

RangeSpec == Init /\ [][RangeNext]_vars

(***************************************************************************)
(* C25.                                                                    *)
(***************************************************************************)
\* The range and the Go kind of the type of a narrow attribute.
RangeOf(name) ==
    CASE name = "sample/int8" -> [min |-> MinInt8, max |-> MaxInt8, kind |-> "i8"]
      [] name = "sample/int16" -> [min |-> MinInt16, max |-> MaxInt16, kind |-> "i16"]
      [] name = "sample/int32" -> [min |-> MinInt32, max |-> MaxInt32, kind |-> "i32"]

\* The value of the assertion a lies in the range of the type of its attribute.
InRange(a) ==
    /\ ~Wide(a.value)
    /\ a.value.n >= RangeOf(a.attribute.s).min
    /\ a.value.n <= RangeOf(a.attribute.s).max

\* Call i of the history is the user call on the narrow attributes.
RangeCall(i) ==
    /\ i = 4
    /\ history[i].op = "Assert"
    /\ \A k \in 1..Len(history[i].input) : history[i].input[k].attribute.s \in RangeNames

\* C25: integer range narrowing.  For an attribute declared int8, int16 or
\* int32, an Assert of an integer outside the range of the type fails with
\* an out-of-range error and writes nothing, and an Assert of integers of
\* any kind that are in range stores each number unchanged, as a value of
\* the declared type.
C25_IntegerRange ==
    \A i \in 2..Len(history) :
        RangeCall(i) =>
            IF \E k \in 1..Len(history[i].input) : ~InRange(history[i].input[k])
            THEN /\ history[i].err = "out of range"
                 /\ history[i].post.eavt = PreOf(i).eavt
                 /\ history[i].post.avet = PreOf(i).avet
            ELSE /\ history[i].err = NoErr
                 /\ \A k \in 1..Len(history[i].input) :
                        LET a == history[i].input[k]
                            stored == Val(RangeOf(a.attribute.s).kind, a.value.n, "")
                        IN \E x \in history[i].post.eavt :
                               /\ x.e = ExplicitID.n
                               /\ x.a = AttrID(history[i].post, a.attribute.s)
                               /\ x.mode = AssertModeAddition
                               /\ x.enc = GobEncode(stored)

\* 40000 has been refused for the int16 attribute, in a call whose first
\* assertion was in range.
C25_Witness ==
    /\ Len(history) = 4
    /\ RangeCall(4)
    /\ Len(history[4].input) = 2
    /\ InRange(history[4].input[1])
    /\ history[4].input[2].value = Val("i64", 40000, "")
    /\ history[4].input[2].attribute.s = "sample/int16"
    /\ history[4].err = "out of range"


(***************************************************************************)
(* C26.                                                                    *)
(***************************************************************************)
\* Every fact of an EAVT scan of the entity e comes from an Addition entry.
EAVTScanSkips(e) ==
    LET FromAddition(scanned) ==
            scanned.err = NoErr =>
                \A k \in 1..Len(scanned.facts) :
                    /\ scanned.facts[k].v # VNil
                    /\ scanned.facts[k].tx # 0
                    /\ \E x \in eavt : /\ x.e = e
                                       /\ x.a = scanned.facts[k].a
                                       /\ x.tx = scanned.facts[k].tx
                                       /\ x.mode = AssertModeAddition
    IN FromAddition(ScanEAVT(eavt, e, NilAttr))

\* Every fact of the AVET scan for the key of the entry y comes from an
\* Addition entry.
AVETScanSkips(y) ==
    LET v == CHOOSE w \in { VStr(y.enc.s), VID(y.enc.n), VBool(y.enc.n = 1),
                            VU64(y.enc.n), VTime(y.enc.n) } : GobEncode(w) = y.enc
        FromAddition(scanned) ==
            scanned.err = NoErr =>
                \A k \in 1..Len(scanned.facts) :
                    /\ scanned.facts[k].tx # 0
                    /\ \E x \in avet : /\ x.a = y.a
                                       /\ x.e = scanned.facts[k].e
                                       /\ x.tx = scanned.facts[k].tx
                                       /\ x.mode = AssertModeAddition
    IN FromAddition(ScanAVET(avet, y.a, v))

\* C26: scans skip non-Addition entries.  Every fact that ScanEAVT or
\* ScanAVET produces comes from an index entry whose mode is Addition; an
\* entry stored with another mode produces no fact, in particular no fact
\* with an empty value or Tx 0.
C26_ScansSkipNonAddition ==
    /\ \A e \in Entities(Conn) : EAVTScanSkips(e)
    /\ \A y \in avet : AVETScanSkips(y)


(***************************************************************************)
(* C27.                                                                    *)
(***************************************************************************)
\* Item k of call i is an Assertion (TempID, db/id, ID).
NamesByDbID(i, k) ==
    /\ history[i].op = "Assert"
    /\ k \in 1..Len(history[i].input)
    /\ "entityID" \in DOMAIN history[i].input[k]
    /\ history[i].input[k].entityID.k = "tmp"
    /\ history[i].input[k].attribute = VStr("db/id")
    /\ history[i].input[k].value.k = "id"

\* C27: db/id binding.  An Assertion (TempID t, db/id, x), where x is the ID
\* of an entity that has committed facts, binds t to x: the batch succeeds
\* and every fact that mentions t lands on x.  When no entity x exists the
\* batch fails.  (Checked for the first user call, where no other assertion
\* of the batch names an entity.)
C27_DbIDBinding ==
    \A k \in 1..2 :
        (Len(history) >= 4 /\ NamesByDbID(4, k)) =>
            LET a == history[4].input[k]
            IN IF a.value.n \in Entities(PreOf(4))
               THEN /\ history[4].err = NoErr
                    /\ history[4].tempIDs[a.entityID.s] = a.value.n
                    /\ \A j \in 1..Len(history[4].input) :
                           (j # k /\ history[4].input[j].entityID = a.entityID) =>
                               \E f \in FactsOf(history[4]) :
                                   /\ f.e = a.value.n
                                   /\ f.a = AttrID(history[4].post, history[4].input[j].attribute.s)
               ELSE history[4].err # NoErr


(***************************************************************************)
(* C28.                                                                    *)
(***************************************************************************)
\* C28: the transaction entity is readable.  After every successful Assert
\* the Tx entity of the batch has a db.tx/commitTime fact stored with mode
\* Addition, and the EAVT scan of the Tx ID yields the commit time.
C28_TxEntityReadable ==
    \A i \in 2..Len(history) :
        Succeeded(history[i]) =>
            LET Yields(scanned) ==
                    /\ scanned.err = NoErr
                    /\ \E k \in 1..Len(scanned.facts) :
                           /\ scanned.facts[k].a = IDTxCommitTime
                           /\ scanned.facts[k].v.k = "time"
                           /\ scanned.facts[k].tx = TxOf(history[i])
            IN /\ \E x \in history[i].post.eavt :
                      /\ x.e = TxOf(history[i])
                      /\ x.a = IDTxCommitTime
                      /\ x.mode = AssertModeAddition
               /\ Yields(ScanEAVT(history[i].post.eavt, TxOf(history[i]), NilAttr))


(***************************************************************************)
(* C29.                                                                    *)
(***************************************************************************)
\* Item k of the user call i is an Assertion whose attribute is the name of
\* an ident, of the system or stored by the time the call ends, whose entity
\* had no db/type fact when the call began.
Unschematized(i, k) ==
    /\ history[i].op = "Assert"
    /\ k \in 1..Len(history[i].input)
    /\ "attribute" \in DOMAIN history[i].input[k]
    /\ history[i].input[k].attribute.k = "str"
    /\ \E x \in { SystemIdents[j] : j \in 1..Len(SystemIdents) } \cup history[i].post.idents :
           /\ x.name = history[i].input[k].attribute.s
           /\ \A y \in PreOf(i).eavt : ~(y.e = x.id /\ y.a = IDType)

\* C29: schema required.  An Assert fails with a 'not a schema entity'
\* error and writes no fact whenever the attribute of one of its assertions
\* resolves to an entity that has no committed db/type fact at the time of
\* the call.
C29_SchemaRequired ==
    \A i \in 4..Len(history) : \A k \in 1..2 :
        Unschematized(i, k) =>
            /\ history[i].err = "not a schema entity"
            /\ history[i].post.eavt = PreOf(i).eavt
            /\ history[i].post.avet = PreOf(i).avet

\* An attribute that the same batch declares has been refused for the
\* assertion that uses it.
C29_Witness ==
    \E i \in 4..Len(history) :
        /\ Unschematized(i, 2)
        /\ history[i].input[2].attribute = VStr("person/nick")
        /\ history[i].err = "not a schema entity"


(***************************************************************************)
(* C30.                                                                    *)
(***************************************************************************)
\* C30: preload independence.  On a store that already holds user idents,
\* ResolveIdents returns for every name and every ID the same result before
\* and after the ident preload that NewConnection starts has run.
C30_PreloadIndependence ==
    [][ (idents # {} /\ loader = "pending" /\ loader' # "pending") =>
            \A x \in idents :
                /\ Answer(VStr(x.name))' = Answer(VStr(x.name))
                /\ Answer(VID(x.id))' = Answer(VID(x.id)) ]_vars

(***************************************************************************)
(* LockSpec: the goroutine of NewConnection and a call of ResolveIdents,   *)
(* each in the steps in which it meets identCache.mu.  The calls of the    *)
(* fixture run while neither is between two steps.                         *)
(***************************************************************************)
MaxLockResolves == 1

\* Whether ResolveIdents(idents) on c reaches a call of identCache.store:
\* no input ends the first loop, and the first backend lookup that is made
\* succeeds.
ReachesStore(c, args) ==
    LET N == Len(args)
        missName(i) == args[i].k = "str" /\ ~lookupByName(c.cache, args[i].s).ok
        missID(i) == args[i].k = "id" /\ ~lookupByID(c.cache, args[i].n).ok
        bad(i) == \/ args[i].k \notin {"ident", "id", "str"}
                  \/ missName(i) /\ HasDbSlashPrefix(args[i].s)
    IN /\ \A i \in 1..N : ~bad(i)
       /\ IF \E i \in 1..N : missName(i)
          THEN \A i \in 1..N : missName(i) => \E x \in c.identIDByName : x.name = args[i].s
          ELSE /\ \E i \in 1..N : missID(i)
               /\ \A i \in 1..N : missID(i) => \E x \in c.idents : x.id = args[i].n

LockInitializeDB ==
    /\ mu = "free"
    /\ reader.pc = "idle"
    /\ TestInitializeDB

LockAssertSchema ==
    /\ mu = "free"
    /\ reader.pc = "idle"
    /\ TestAssertSchema

\* The goroutine: LoadIdents returns, or panics.
LoaderLoad ==
    /\ loader = "pending"
    /\ loader' = IF LoadIdents(Conn).panic THEN "panicked" ELSE "loaded"
    /\ UNCHANGED << eavt, avet, idents, identIDByName, seq, cache, schemaEntityCache,
                    history, scan, mu, reader, pipe >>

\* The goroutine: identCache.store takes c.mu.
LoaderLock ==
    /\ loader = "loaded"
    /\ mu = "free"
    /\ mu' = "loader"
    /\ loader' = "storing"
    /\ UNCHANGED << eavt, avet, idents, identIDByName, seq, cache, schemaEntityCache,
                    history, scan, reader, pipe >>

\* The goroutine: the loop of identCache.store over what LoadIdents returned
\* (a list that was loaded without a panic is empty), and the deferred Unlock.
LoaderUnlock ==
    /\ loader = "storing"
    /\ cache' = identCacheStore(cache, << >>, 1)
    /\ mu' = "free"
    /\ loader' = "done"
    /\ UNCHANGED << eavt, avet, idents, identIDByName, seq, schemaEntityCache,
                    history, scan, reader, pipe >>

\* ResolveIdents enters its first loop: lookupByID and lookupByName read the
\* index maps, and neither takes c.mu.
LockResolveLookup ==
    /\ Running
    /\ Len(history) >= 3
    /\ Cardinality({ i \in 1..Len(history) : history[i].op = "ResolveIdents" })
          < MaxLockResolves
    /\ reader.pc = "idle"
    /\ \E args \in ResolveInputs(Conn) :
          reader' = [pc |-> "lookup", args |-> args]
    /\ UNCHANGED << eavt, avet, idents, identIDByName, seq, cache, schemaEntityCache,
                    history, loader, scan, mu, pipe >>

\* ResolveIdents calls identCache.store, which takes c.mu.
LockResolveStore ==
    /\ Running
    /\ reader.pc = "lookup"
    /\ ReachesStore(Conn, reader.args)
    /\ mu = "free"
    /\ mu' = "conn"
    /\ reader' = [reader EXCEPT !.pc = "store"]
    /\ UNCHANGED << eavt, avet, idents, identIDByName, seq, cache, schemaEntityCache,
                    history, loader, scan, pipe >>

\* ResolveIdents returns: after the Unlock of its store, or from its first
\* loop or a failed backend lookup without a store.
LockResolveReturn ==
    /\ \/ reader.pc = "store"
       \/ reader.pc = "lookup" /\ ~ReachesStore(Conn, reader.args)
    /\ mu' = "free"
    /\ reader' = NoReader
    /\ LET r == ResolveIdents(Conn, reader.args)
       IN /\ Running
          /\ SetConn(r.conn)
          /\ history' = Append(history,
                           [op |-> "ResolveIdents", input |-> reader.args, err |-> r.err,
                            data |-> r.out, tempIDs |-> EmptyFn, assertions |-> << >>,
                            post |-> r.conn])
    /\ UNCHANGED << loader, scan, pipe >>

LockNext ==
    \/ LockInitializeDB
    \/ LockAssertSchema
    \/ LoaderLoad
    \/ LoaderLock
    \/ LoaderUnlock
    \/ LockResolveLookup
    \/ LockResolveStore
    \/ LockResolveReturn

LockSpec == Init /\ [][LockNext]_vars

(***************************************************************************)
(* C31.                                                                    *)
(***************************************************************************)
\* C31: Ident cache locking.  Every read and every write of the two index
\* maps of the ident cache happens while the cache mutex is held: a
\* ResolveIdents call that is in its lookups holds the mutex, and so it is
\* never in its lookups while the goroutine is inside identCache.store.
C31_IdentCacheLocking ==
    /\ reader.pc = "lookup" => mu = "conn"
    /\ reader.pc = "store" => mu = "conn"
    /\ loader = "storing" => mu = "loader"
    /\ ~(reader.pc = "lookup" /\ loader = "storing")

(***************************************************************************)
(* C32.                                                                    *)
(***************************************************************************)
\* The names of the model that start with "db.": the system idents after
\* db/doc, and DotName.
DbDotNames ==
    { SystemIdents[i].name : i \in 9..Len(SystemIdents) } \cup { DotName.s }

\* C32: Reserved namespaces stay system-only.  No sequence of Asserts stores
\* an ident with a positive, allocated ID whose name starts with "db/" or
\* with "db.".
C32_ReservedNamespaces ==
    \A x \in idents : x.id > 0 => x.name \notin DbSlashNames \cup DbDotNames

(***************************************************************************)
(* The dataflow package: SliceScanner, Map, Filter and SliceCollector.  A  *)
(* pipeline is the list of its operators in the order of the calls; the    *)
(* collector stands after the last one.                                    *)
(***************************************************************************)
MaxSliceLen == 3

\* A nil item: the end of the stream.
NilItem == VNil
ErrAtoi == "strconv.Atoi: invalid syntax"

\* strconv.Atoi over the strings of the model.
Atoi(s) ==
    CASE s = "1" -> [err |-> NoErr, n |-> 1]
      [] s = "2" -> [err |-> NoErr, n |-> 2]
      [] s = "3" -> [err |-> NoErr, n |-> 3]
      [] s = "-1" -> [err |-> NoErr, n |-> -1]
      [] OTHER -> [err |-> ErrAtoi, n |-> 0]

\* The mapper functions of the tests.
mapper(fn, x) ==
    CASE fn = "identity" -> [err |-> NoErr, out |-> x]
      [] fn = "double" -> [err |-> NoErr, out |-> Val("int", x.n * 2, "")]
      [] fn = "parseInt" -> [err |-> Atoi(x.s).err, out |-> Val("int", Atoi(x.s).n, "")]

\* The predicates of the tests.
pred(fn, x) ==
    CASE fn = "pPositiveNumber" -> x.n > 0
      [] fn = "canParseNum" -> Atoi(x.s).err = NoErr

NewMap(fn) == [kind |-> "map", fn |-> fn]
NewFilter(fn) == [kind |-> "filter", fn |-> fn]

\* A zero SliceCollector; eos counts the nil items it was handed.
NewSliceCollector == [xs |-> << >>, consumed |-> FALSE, eos |-> 0]

\* SliceCollector.Consume.
SliceCollectorConsume(c, x) ==
    IF c.consumed THEN [err |-> "sliceCollector already consumed", coll |-> c]
    ELSE IF x = NilItem THEN [err |-> NoErr, coll |-> [c EXCEPT !.eos = @ + 1]]
    ELSE [err |-> NoErr, coll |-> [c EXCEPT !.xs = Append(@, x)]]

RECURSIVE Consume(_, _, _, _)

\* Map.Consume of operator k.
MapConsume(ops, k, in, c) ==
    IF in = NilItem THEN Consume(ops, k + 1, NilItem, c)
    ELSE LET Mapped(r) ==
                 IF r.err # NoErr THEN [err |-> r.err, coll |-> c]
                 ELSE Consume(ops, k + 1, r.out, c)
         IN Mapped(mapper(ops[k].fn, in))

\* A Filter.Consume that hands on every item.
FilterConsumeAll(ops, k, item, c) == Consume(ops, k + 1, item, c)

\* Filter.Consume of operator k.
FilterConsume(ops, k, item, c) ==
    IF item = NilItem THEN Consume(ops, k + 1, NilItem, c)
    ELSE IF pred(ops[k].fn, item) THEN Consume(ops, k + 1, item, c)
    ELSE [err |-> NoErr, coll |-> c]

\* The ConsumeFn of operator k; after the last operator, the collector's.
Consume(ops, k, item, c) ==
    IF k > Len(ops) THEN SliceCollectorConsume(c, item)
    ELSE IF ops[k].kind = "map" THEN MapConsume(ops, k, item, c)
    ELSE FilterConsume(ops, k, item, c)

(***************************************************************************)
(* PipeSpec: SliceScanner.Produce into a pipeline, one loop iteration a    *)
(* step.                                                                   *)
(***************************************************************************)
\* The pipelines of the tests, each with the items of its input type.
Pipelines ==
    { [ops |-> << NewFilter("canParseNum"), NewMap("parseInt"), NewMap("double") >>,
       items |-> { VStr("1"), VStr("2"), VStr("foo"), VStr("3") }],
      [ops |-> << NewMap("parseInt"), NewMap("double") >>,
       items |-> { VStr("1"), VStr("foo"), VStr("-1") }],
      [ops |-> << NewMap("parseInt"), NewFilter("pPositiveNumber") >>,
       items |-> { VStr("1"), VStr("foo"), VStr("-1") }],
      [ops |-> << NewFilter("pPositiveNumber") >>,
       items |-> { Val("int", -1, ""), Val("int", 0, ""), Val("int", 1, "") }],
      [ops |-> << NewMap("identity") >>,
       items |-> { Val("int", 1, ""), Val("int", 2, "") }] }

Slices(items) == UNION { [1..n -> items] : n \in 0..MaxSliceLen }

\* The pipeline is built and SliceScanner{Slice}.Produce is called on it.
PipeStart ==
    /\ pipe.pc = "idle"
    /\ \E p \in Pipelines : \E slice \in Slices(p.items) :
          pipe' = [pc |-> "produce", ops |-> p.ops, Slice |-> slice, i |-> 1,
                   res |-> NewSliceCollector, err |-> NoErr]
    /\ UNCHANGED << eavt, avet, idents, identIDByName, seq, cache, schemaEntityCache,
                    history, loader, scan, mu, reader >>

\* One iteration of the loop of Produce: an error ends the call.
PipeItem ==
    /\ pipe.pc = "produce"
    /\ pipe.i <= Len(pipe.Slice)
    /\ LET r == Consume(pipe.ops, 1, pipe.Slice[pipe.i], pipe.res)
       IN pipe' = IF r.err # NoErr
                  THEN [pipe EXCEPT !.pc = "returned", !.err = r.err, !.res = r.coll]
                  ELSE [pipe EXCEPT !.i = @ + 1, !.res = r.coll]
    /\ UNCHANGED << eavt, avet, idents, identIDByName, seq, cache, schemaEntityCache,
                    history, loader, scan, mu, reader >>

\* After the loop: Produce returns next(ctx, nil).
PipeEnd ==
    /\ pipe.pc = "produce"
    /\ pipe.i > Len(pipe.Slice)
    /\ LET r == Consume(pipe.ops, 1, NilItem, pipe.res)
       IN pipe' = [pipe EXCEPT !.pc = "returned", !.err = r.err, !.res = r.coll]
    /\ UNCHANGED << eavt, avet, idents, identIDByName, seq, cache, schemaEntityCache,
                    history, loader, scan, mu, reader >>

PipeNext == PipeStart \/ PipeItem \/ PipeEnd

PipeSpec == Init /\ [][PipeNext]_vars

(***************************************************************************)
(* C33.                                                                    *)
(***************************************************************************)
\* What the operators make of one item, told without the calls: the error
\* of the first mapper that fails, or whether every predicate holds and
\* the value the mappers give.
RECURSIVE Through(_, _, _)
Through(ops, k, x) ==
    IF k > Len(ops) THEN [err |-> NoErr, keep |-> TRUE, out |-> x]
    ELSE IF ops[k].kind = "filter"
    THEN IF pred(ops[k].fn, x) THEN Through(ops, k + 1, x)
         ELSE [err |-> NoErr, keep |-> FALSE, out |-> x]
    ELSE IF mapper(ops[k].fn, x).err # NoErr
    THEN [err |-> mapper(ops[k].fn, x).err, keep |-> FALSE, out |-> x]
    ELSE Through(ops, k + 1, mapper(ops[k].fn, x).out)

\* The mapped values of the items among the first n that pass, in input order.
RECURSIVE Passed(_, _, _)
Passed(ops, slice, n) ==
    IF n = 0 THEN << >>
    ELSE Passed(ops, slice, n - 1)
           \o (IF Through(ops, 1, slice[n]).keep
               THEN << Through(ops, 1, slice[n]).out >> ELSE << >>)

\* The items of the slice at which an operator returns an error.
Failing(ops, slice) ==
    { j \in 1..Len(slice) : Through(ops, 1, slice[j]).err # NoErr }

\* C33: Dataflow pipeline order.  A Filter and Map chain fed by
\* SliceScanner.Produce delivers to the collector exactly the mapped values
\* of the items that satisfy the predicate, in input order, then one
\* end-of-stream signal; once a stage returns an error, no further item is
\* delivered and Produce returns that error.
C33_PipelineOrder ==
    /\ pipe.pc = "produce" =>
          /\ pipe.res.xs = Passed(pipe.ops, pipe.Slice, pipe.i - 1)
          /\ pipe.res.eos = 0
    /\ pipe.pc = "returned" =>
          LET bad == Failing(pipe.ops, pipe.Slice)
          IN IF bad = {}
             THEN /\ pipe.err = NoErr
                  /\ pipe.res.xs = Passed(pipe.ops, pipe.Slice, Len(pipe.Slice))
                  /\ pipe.res.eos = 1
             ELSE LET j == CHOOSE m \in bad : \A o \in bad : m <= o
                  IN /\ pipe.err = Through(pipe.ops, 1, pipe.Slice[j]).err
                     /\ pipe.res.xs = Passed(pipe.ops, pipe.Slice, j - 1)
                     /\ pipe.res.eos = 0

\* The pipeline of TestPipeline has returned: of the strings "1", "foo", "3"
\* the collector holds 2 and 6 and was handed the end of the stream once.
C33_Witness ==
    /\ pipe.pc = "returned"
    /\ Len(pipe.ops) = 3
    /\ pipe.Slice = << VStr("1"), VStr("foo"), VStr("3") >>
    /\ pipe.res.xs = << Val("int", 2, ""), Val("int", 6, "") >>
    /\ pipe.res.eos = 1
    /\ pipe.err = NoErr

(***************************************************************************)
(* C34.                                                                    *)
(***************************************************************************)
\* getSchemaEntity of the attribute entity on a connection whose
\* schema-entity cache is empty: a fresh EAVT scan of the entity.
FreshSchemaEntity(attrID) ==
    getSchemaEntity([Conn EXCEPT !.schemaEntityCache = EmptyFn], attrID)

\* C34: Schema cache coherence.  In every reachable state, each snapshot
\* held in the schema-entity cache of the connection equals a fresh EAVT
\* scan of that attribute entity.
C34_SchemaCacheCoherence ==
    \A attrID \in DOMAIN schemaEntityCache :
        LET Same(fresh) == fresh.err = NoErr /\ fresh.ent = schemaEntityCache[attrID]
        IN Same(FreshSchemaEntity(attrID))

(***************************************************************************)
(* C35.                                                                    *)
(***************************************************************************)
\* C35: Failed transactions leave idents untouched.  If Assert returns an
\* error, the persistent ident tables equal their state before the call, and
\* so a new name of a db/ident assertion of the call is not resolvable
\* afterwards.
C35_FailedAssertKeepsIdents ==
    \A i \in 2..Len(history) :
        (history[i].op = "Assert" /\ history[i].err # NoErr) =>
            /\ history[i].post.idents = PreOf(i).idents
            /\ history[i].post.identIDByName = PreOf(i).identIDByName

(***************************************************************************)
(* FreshSpec: the fixture of a test, then calls that name an entity by an  *)
(* explicit ID and calls that have IDs allocated.                          *)
(***************************************************************************)
MaxFreshAsserts == 2

\* An entity ID a caller names itself, close above the IDs the fixture has
\* allocated.
NearID == VID(11)

FreshBatches ==
    { << NewAssert(NearID, VStr("person/lastName"), VStr("Lee")) >>,
      << NewAssert(ExplicitID, VStr("person/lastName"), VStr("Lee")) >>,
      << ED({ Entry("person/email", VStr("a@x")), Entry("person/firstName", VStr("Ann")) }) >>,
      << ED({ Entry("person/ssn", VStr("123")),
              EntryMany("person/pets", << VTmp("p1"), VTmp("p2") >>) }) >>,
      << ED({ Entry("db/ident", VStr("person/nick")),
              Entry("db/type", VStr("db.type/string")) }) >>,
      << NewAssert(ExplicitID, VStr("person/nick"), VStr("Ann")) >> }

FreshAssertUser ==
    /\ Len(history) >= 3
    /\ Len(history) < 3 + MaxFreshAsserts
    /\ \E b \in FreshBatches : \E assertables \in Expand(b) : DoAssert(assertables)

FreshNext == TestInitializeDB \/ TestAssertSchema \/ FreshAssertUser \/ LoadIdentsDone

FreshSpec == Init /\ [][FreshNext]_vars

(***************************************************************************)
(* C36.                                                                    *)
(***************************************************************************)
\* The IDs that call i took from the sequence of the store.
AllocatedBy(i) == PreOf(i).seq .. (history[i].post.seq - 1)

\* The TempIDs of call i (the Tx among them) that got an allocated ID.
AllocatedSymbols(i) ==
    { sym \in DOMAIN history[i].tempIDs : history[i].tempIDs[sym] \in AllocatedBy(i) }

StringKeys ==
    { [a |-> x.a, v |-> VStr(x.enc.s)] :
        x \in { y \in eavt \cup avet : y.a > 0 /\ y.enc.w = "string" } }

\* ScanAVET(A, V) yields a fact of entity E.
AVETYields(A, V, E) ==
    LET Has(scanned) ==
            /\ scanned.err = NoErr
            /\ \E k \in 1..Len(scanned.facts) : scanned.facts[k].e = E
    IN Has(ScanAVET(avet, A, V))

\* ScanEAVT(E, A) yields a fact with the value V.
EAVTYields(E, A, V) ==
    LET Has(scanned) ==
            /\ scanned.err = NoErr
            /\ \E k \in 1..Len(scanned.facts) : scanned.facts[k].v = V
    IN Has(ScanEAVT(eavt, E, AttrPtr(A)))

\* No Addition entry of the AVET index maps a value to an entity whose EAVT
\* entry of the attribute holds another value.
NoStaleAVET ==
    \A y \in avet :
        (y.a > 0 /\ y.mode = AssertModeAddition) =>
            \E x \in eavt : x.e = y.e /\ x.a = y.a /\ x.enc = y.enc

\* C37: EAVT and AVET agree.  In every state reachable by successful
\* Asserts, ScanAVET(A, V) yields entity E if and only if ScanEAVT(E, A)
\* yields a fact with value V; re-asserting a different value for (E, A)
\* leaves no AVET entry that still maps the old value to E.
C37_IndexesAgree ==
    /\ \A key \in StringKeys : \A E \in { x.e : x \in eavt } :
          AVETYields(key.a, key.v, E) <=> EAVTYields(E, key.a, key.v)
    /\ NoStaleAVET

(***************************************************************************)
(* C38.                                                                    *)
(***************************************************************************)
ErrPanicCardinality == "panic: error fetching attribute cardinality"

\* GetEntity(e) on the connection of the state returns: a snapshot or an
\* error, and no panic.
GetEntityReturns(e) ==
    LET NoPanic(r) == r.err # ErrPanicCardinality
    IN NoPanic(GetEntityByID(Conn, e))

\* C38: GetEntity is total on committed data.  For every entity whose facts
\* were accepted by Assert, GetEntity returns a snapshot or an error and
\* never reaches a panic, also when a fact's attribute was declared with
\* db/type and without db/cardinality.
C38_GetEntityTotal ==
    \A e \in { x.e : x \in { y \in eavt : y.a > 0 } } : GetEntityReturns(e)

(***************************************************************************)
(* C39.                                                                    *)
(***************************************************************************)
\* The batch of a call as the caller wrote it: every EntityData a map.
BatchOf(call) ==
    [k \in 1..Len(call.input) |->
        IF IsEntityData(call.input[k]) THEN ED(EntrySet(call.input[k]))
        ELSE call.input[k]]

\* What a result of Assert on c0 shows of the batch: whether it succeeded,
\* and the facts it attached to entities it did not allocate itself.
Outcome(c0, r) ==
    [ok |-> r.err = NoErr,
     facts |-> { << r.data[k].e, r.data[k].a, r.data[k].v >> :
                   k \in { j \in 1..Len(r.data) :
                             r.data[j].e \notin c0.seq..(r.conn.seq - 1) } }]

\* The outcomes of the batch of call i on the store state it ran on, over
\* the iteration orders of its maps.
OutcomesOf(i) ==
    LET Over(c0) ==
            { Outcome(c0, r) :
                r \in UNION { AssertResults(c0, assertables, Now) :
                                assertables \in Expand(BatchOf(history[i])) } }
    IN Over(PreOf(i))

\* C39: Order independence.  For a fixed store state and a fixed batch,
\* whether Assert succeeds and which entity ID each fact is attached to do
\* not depend on the iteration order over the keys of an EntityData.
C39_OrderIndependence ==
    \A i \in 2..Len(history) :
        (history[i].op = "Assert" /\ history[i].input # SchemaBatch) =>
            Cardinality(OutcomesOf(i)) = 1

(***************************************************************************)
(* C40.                                                                    *)
(***************************************************************************)
\* Call i of the history is the user call with an assertion on the int64
\* attribute.
Int64Call(i) ==
    /\ i = 4
    /\ history[i].op = "Assert"
    /\ \E k \in 1..Len(history[i].input) : history[i].input[k].attribute.s = "sample/int64"

\* The encoded int64 holds the number of the input value.
SameNumber(v, enc) ==
    /\ enc.w = "int"
    /\ IF Wide(v) THEN v.hi # AboveInt64 /\ "hi" \in DOMAIN enc /\ enc.hi = v.hi
       ELSE "hi" \notin DOMAIN enc /\ enc.n = v.n

\* C40: Integer coercion preserves the number.  Whenever Assert accepts an
\* integer input for an int64 attribute, the stored int64 is numerically
\* equal to the input; an unsigned input above the maximum int64 is
\* rejected rather than stored as a wrapped negative value.
C40_Int64Preserved ==
    \A i \in 2..Len(history) :
        Int64Call(i) =>
            \A k \in 1..Len(history[i].input) :
                LET a == history[i].input[k]
                IN a.attribute.s = "sample/int64" =>
                      /\ (Wide(a.value) /\ a.value.hi = AboveInt64) => history[i].err # NoErr
                      /\ history[i].err = NoErr =>
                            \E x \in history[i].post.eavt :
                                /\ x.e = ExplicitID.n
                                /\ x.a = AttrID(history[i].post, "sample/int64")
                                /\ x.mode = AssertModeAddition
                                /\ SameNumber(a.value, x.enc)

====
